---- MODULE Spec2Model ----
(***************************************************************************)
(* District-membership proving system (communisaas/voter-protocol).        *)
(*                                                                         *)
(* Six state machines share this module:                                   *)
(*   SpecCircuit - the in-circuit gadgets (bit decomposition, Merkle path  *)
(*                 verification, the membership circuit) run on witnesses  *)
(*                 drawn from bounded sets;                                *)
(*   Spec        - prover construction: ceremony-parameter loading and the *)
(*                 constructors (native new, WASM new, WASM from_cache);   *)
(*   SpecProve   - the proving entry points of a constructed Prover, and   *)
(*                 verify on what they returned;                           *)
(*   SpecConcurrent - prove and verify calls interleaved on one Prover;    *)
(*   SpecText    - the hex and decimal readers of field elements;          *)
(*   SpecVault   - the CipherVault storage contract.                       *)
(*                                                                         *)
(* Field elements are symbolic: Fr(n) is the canonical element of the      *)
(* integer n, and a Poseidon output is the term of its inputs (the hash of *)
(* halo2-base is an external primitive, modelled as collision free).       *)
(***************************************************************************)
EXTENDS Integers, Sequences, FiniteSets, TLC

VARIABLES
    run,        \* SpecCircuit: the last gadget execution (inputs and outcome);
                \* SpecConcurrent: the builder held in each builder slot;
                \* SpecVault: the contract's state
    build,      \* compile-time configuration of the binary
    environ,    \* process environment read at run time (native)
    disk,       \* files under ./kzg_params (native)
    cache,      \* blobs the host hands to from_cache (WASM)
    prover,     \* the Prover the caller currently holds (or NoProver)
    call        \* the last API call, its trace of steps and its result;
                \* SpecConcurrent: each caller's call in flight

circuitVars == <<run>>
proverVars == <<build, environ, disk, cache, prover, call>>
vars == <<run, build, environ, disk, cache, prover, call>>

(***************************************************************************)
(* Bounds of the model.                                                    *)
(***************************************************************************)
MaxDepth == 2        \* Merkle gadget run directly: tree depths 1..MaxDepth
MaxLeafValue == 2    \* leaves of a test tree are Fr(1)..Fr(MaxLeafValue)
MaxLowIndex == 2     \* membership circuit: leaf indexes 0..MaxLowIndex (and the top ones)
MaxVaried == 2       \* membership circuit: leading path positions that vary

(***************************************************************************)
(* Program constants.                                                      *)
(***************************************************************************)
TREE_DEPTH == 12     \* tree_depth passed by verify_membership
NUM_PUBLIC == 3      \* num_instance() = vec![3]

(***************************************************************************)
(* Field elements and Poseidon.                                            *)
(***************************************************************************)
Fr(n) == <<"fr", n>>

FrZero == Fr(0)

\* hasher.hash_fix_len_array(ctx, gate, &[value]): domain separated by length
hash_single_with_hasher(value) == <<"poseidon1", value>>

\* mutant: a pair hash that absorbs only its left input
hash_pair_left_only(left, right) == <<"poseidon2", left>>

\* hasher.hash_fix_len_array(ctx, gate, &[left, right]): ordered pair
hash_pair_with_hasher(left, right) == <<"poseidon2", left, right>>

\* mutant: the multiplexer's branches exchanged
select_swapped(a, b, sel) == IF sel = 1 THEN b ELSE a

\* gate.select(ctx, a, b, sel): sel ? a : b
select(a, b, sel) == IF sel = 1 THEN a ELSE b

(***************************************************************************)
(* merkle.rs                                                               *)
(***************************************************************************)
validate_merkle_inputs(path_len, tree_depth) ==
    IF path_len # tree_depth
    THEN [ok |-> FALSE, err |-> [kind |-> "InvalidMerklePathLength",
                                 got |-> path_len, expected |-> tree_depth]]
    ELSE [ok |-> TRUE]

\* bit i of the little-endian representation: (repr[i / 8] >> (i % 8)) & 1
BitOfRepr(n, i) == (n \div (2 ^ i)) % 2

RECURSIVE Reconstruct(_, _)
\* reconstructed = sum of bit[i] * 2^i, accumulated in the loop, i = 0..k-1
Reconstruct(bits, k) ==
    IF k = 0 THEN 0 ELSE Reconstruct(bits, k - 1) + bits[k] * (2 ^ (k - 1))

\* mutant: booleanity only, the reconstruction constraint left out
BitConstraintsHold_free(bits, num_bits, n) ==
    \A i \in 1..num_bits : bits[i] * bits[i] = bits[i]

\* The constraints decompose_to_bits emits, evaluated on an assignment of the
\* bit cells: booleanity of every bit and reconstruction of the value.
BitConstraintsHold(bits, num_bits, n) ==
    /\ \A i \in 1..num_bits : bits[i] * bits[i] = bits[i]
    /\ Reconstruct(bits, num_bits) = n

decompose_to_bits(value, num_bits) ==
    LET n == value[2]
        bits == [i \in 1..num_bits |-> BitOfRepr(n, i - 1)]
    IN [bits |-> bits, satisfied |-> BitConstraintsHold(bits, num_bits, n)]

\* the hasher a caller creates and passes on as &mut hasher
Hasher == <<"hasher", 0>>

\* the hasher field of an emission that uses none
NoHasher == <<"none", 0>>

\* poseidon_hash.rs create_poseidon_hasher: PoseidonHasher::new followed by
\* initialize_consts, which materializes the round constants and MDS matrix
create_poseidon_hasher(hasher) == <<[op |-> "initialize_consts", hasher |-> hasher]>>

\* what one hash_*_with_hasher call emits: a permutation on the hasher passed
hash_emitted(hasher) == [op |-> "hash_fix_len_array", hasher |-> hasher]

\* ctx.load_witness: an advice cell, no constraint
load_witness_emitted == [op |-> "load_witness", hasher |-> NoHasher]

\* mutant: the legacy verify_merkle_path, a new hasher for every hash
merkle_loop_emitted_legacy(hasher, tree_depth) ==
    [i \in 1..(5 * tree_depth) |->
        IF i % 5 \in {1, 3} THEN [op |-> "initialize_consts", hasher |-> <<"fresh", i>>]
        ELSE IF i % 5 \in {2, 4} THEN hash_emitted(<<"fresh", i - 1>>)
        ELSE [op |-> "select", hasher |-> NoHasher]]

\* what the for loop of verify_merkle_path_with_hasher emits: per level two
\* hashes on the caller's hasher and one select
merkle_loop_emitted(hasher, tree_depth) ==
    [i \in 1..(3 * tree_depth) |->
        IF i % 3 \in {1, 2} THEN hash_emitted(hasher)
        ELSE [op |-> "select", hasher |-> NoHasher]]

RECURSIVE MerkleLoop(_, _, _, _)
\* the for loop of verify_merkle_path_with_hasher after j iterations
MerkleLoop(leaf, path, bits, j) ==
    IF j = 0 THEN leaf
    ELSE LET current_hash == MerkleLoop(leaf, path, bits, j - 1)
             hash_if_left == hash_pair_with_hasher(current_hash, path[j])
             hash_if_right == hash_pair_with_hasher(path[j], current_hash)
         IN select(hash_if_right, hash_if_left, bits[j])

verify_merkle_path_with_hasher(leaf, leaf_index, path, tree_depth) ==
    IF Len(path) # tree_depth
    THEN [panic |-> TRUE, root |-> FrZero, satisfied |-> FALSE, nodes |-> <<>>,
          \* the length test precedes decompose_to_bits and every hash
          emitted |-> <<>>]
    ELSE LET index_bits == decompose_to_bits(leaf_index, tree_depth)
         IN [panic |-> FALSE,
             emitted |-> <<[op |-> "decompose_to_bits", hasher |-> NoHasher]>>
                         \o merkle_loop_emitted(Hasher, tree_depth),
             root |-> MerkleLoop(leaf, path, index_bits.bits, tree_depth),
             satisfied |-> index_bits.satisfied,
             \* current_hash after each iteration of the loop
             nodes |-> [j \in 1..tree_depth |->
                          MerkleLoop(leaf, path, index_bits.bits, j)]]

(***************************************************************************)
(* merkle.rs, test helpers: the reference tree                             *)
(***************************************************************************)
RECURSIVE TreeLevel(_, _)
\* the level reached after `up` rounds of pairing in build_test_tree
TreeLevel(leaves, up) ==
    IF up = 0 THEN leaves
    ELSE LET below == TreeLevel(leaves, up - 1)
         IN [i \in 1..(Len(below) \div 2) |->
                hash_pair_with_hasher(below[2 * i - 1], below[2 * i])]

build_test_tree(leaves, depth) == TreeLevel(leaves, depth)[1]

\* siblings[j] = level (j-1) node at index (leaf_index / 2^(j-1)) ^ 1
get_merkle_path(leaves, leaf_index, depth) ==
    [j \in 1..depth |->
        LET level == TreeLevel(leaves, j - 1)
            current_index == leaf_index \div (2 ^ (j - 1))
            sibling_index == IF current_index % 2 = 0 THEN current_index + 1
                             ELSE current_index - 1
        IN level[sibling_index + 1]]

(***************************************************************************)
(* district_membership_single_tier.rs                                      *)
(***************************************************************************)
\* mutant: the nullifier hashed from the leaf instead of the identity witness
verify_membership_leaf_nullifier(circuit) ==
    LET leaf_hash == hash_single_with_hasher(circuit.identity_commitment)
        merkle == verify_merkle_path_with_hasher(leaf_hash, Fr(circuit.leaf_index),
                                                 circuit.merkle_path, TREE_DEPTH)
    IN [panic |-> merkle.panic,
        satisfied |-> merkle.satisfied,
        outputs |-> <<merkle.root, hash_pair_with_hasher(leaf_hash, circuit.action_id),
                      circuit.action_id>>]

\* mutant: the nullifier hashed from the identity and the leaf index
verify_membership_index_nullifier(circuit) ==
    LET leaf_hash == hash_single_with_hasher(circuit.identity_commitment)
        merkle == verify_merkle_path_with_hasher(leaf_hash, Fr(circuit.leaf_index),
                                                 circuit.merkle_path, TREE_DEPTH)
    IN [panic |-> merkle.panic,
        satisfied |-> merkle.satisfied,
        outputs |-> <<merkle.root,
                      hash_pair_with_hasher(circuit.identity_commitment,
                                            Fr(circuit.leaf_index)),
                      circuit.action_id>>,
        emitted |-> merkle.emitted]

\* circuit: [identity_commitment, leaf_index (usize), merkle_path, action_id]
verify_membership(circuit) ==
    LET identity_assigned == circuit.identity_commitment
        leaf_hash == hash_single_with_hasher(identity_assigned)
        leaf_index_assigned == Fr(circuit.leaf_index)
        siblings == circuit.merkle_path
        merkle == verify_merkle_path_with_hasher(leaf_hash, leaf_index_assigned,
                                                 siblings, TREE_DEPTH)
        action_id_assigned == circuit.action_id
        computed_nullifier == hash_pair_with_hasher(identity_assigned, action_id_assigned)
        \* emitted in program order up to the call of the Merkle gadget
        before_merkle == create_poseidon_hasher(Hasher)
                         \o <<load_witness_emitted, hash_emitted(Hasher),
                              load_witness_emitted>>
                         \o [i \in 1..Len(siblings) |-> load_witness_emitted]
        after_merkle == <<load_witness_emitted, hash_emitted(Hasher)>>
    IN [panic |-> merkle.panic,
        satisfied |-> merkle.satisfied,
        outputs |-> <<merkle.root, computed_nullifier, action_id_assigned>>,
        emitted |-> IF merkle.panic THEN before_merkle
                    ELSE before_merkle \o merkle.emitted \o after_merkle]

(***************************************************************************)
(* SpecCircuit: the gadgets applied to bounded inputs.                     *)
(***************************************************************************)
LeafValues == {Fr(v) : v \in 1..MaxLeafValue}

Depths == 0..MaxDepth

IndexValues == 0..(2 ^ (MaxDepth + 1))

PathsUpTo(len) == UNION {[1..l -> LeafValues] : l \in 0..len}

Identities == {Fr(0), Fr(1001)}

Actions == {Fr(0), Fr(555)}

SiblingValues == {Fr(0), Fr(2000), Fr(3000)}

\* paths whose first MaxVaried siblings vary and whose other siblings are zero
MembershipPaths ==
    {[j \in 1..len |-> IF j <= MaxVaried THEN head[j] ELSE FrZero] :
        head \in [1..MaxVaried -> SiblingValues],
        len \in {TREE_DEPTH - 1, TREE_DEPTH, TREE_DEPTH + 1}}

MembershipIndexes ==
    (0..MaxLowIndex) \cup {2 ^ TREE_DEPTH - 1, 2 ^ TREE_DEPTH, 2 ^ TREE_DEPTH + 1}

Circuits ==
    [identity_commitment : Identities, leaf_index : MembershipIndexes,
     merkle_path : MembershipPaths, action_id : Actions]

Idle == [op |-> "none"]

NoProver == [some |-> FALSE]

NoCache == [some |-> FALSE]

ProverIdle ==
    /\ build = [target |-> "native", debug_assertions |-> FALSE,
                option_env_allow |-> FALSE, embedded |-> "axiom_challenge_0085"]
    /\ environ = [ALLOW_TEST_PARAMS |-> "unset"]
    /\ disk = [k |-> 14, ceremony |-> "absent"]
    /\ cache = NoCache
    /\ prover = NoProver
    /\ call = Idle

\* Init draws the inputs of one gadget execution
DrawDecompose ==
    \E v \in IndexValues, n \in Depths :
        run = [op |-> "pending", gadget |-> "decompose_to_bits", v |-> v, n |-> n]

DrawMerkleOnTree ==
    \E depth \in 1..MaxDepth :
        \E leaves \in [1..(2 ^ depth) -> LeafValues], i \in 0..(2 ^ depth - 1) :
            run = [op |-> "pending", gadget |-> "merkle_on_tree", depth |-> depth,
                   leaves |-> leaves, index |-> i]

DrawMerkle ==
    \E leaf \in LeafValues, index \in IndexValues, depth \in Depths :
        \E path \in PathsUpTo(MaxDepth + 1) :
            run = [op |-> "pending", gadget |-> "merkle", depth |-> depth,
                   index |-> index, leaf |-> leaf, path |-> path]

DrawMembership ==
    \E circuit \in Circuits :
        run = [op |-> "pending", gadget |-> "verify_membership", circuit |-> circuit]

\* the value test_merkle_reject_wrong_sibling writes over a sibling
TamperValues == LeafValues \cup {Fr(99999)}

\* a leaf of a tree, and a level of its path to overwrite with another value
DrawWrongSibling ==
    \E depth \in 1..MaxDepth :
        \E leaves \in [1..(2 ^ depth) -> LeafValues], i \in 0..(2 ^ depth - 1),
           level \in 1..depth, value \in TamperValues :
            /\ value # get_merkle_path(leaves, i, depth)[level]
            /\ run = [op |-> "pending", gadget |-> "merkle_wrong_sibling",
                      depth |-> depth, leaves |-> leaves, index |-> i,
                      level |-> level, value |-> value]

Pending(gadget) == run.op = "pending" /\ run.gadget = gadget

\* decompose_to_bits on a witnessed value v and a bit count n
RunDecompose ==
    /\ Pending("decompose_to_bits")
    /\ run' = [op |-> "decompose_to_bits", v |-> run.v, n |-> run.n,
               out |-> decompose_to_bits(Fr(run.v), run.n)]
    /\ UNCHANGED proverVars

\* the Merkle gadget on a leaf of a tree built with hash2 and its sibling path
RunMerkleOnTree ==
    /\ Pending("merkle_on_tree")
    /\ LET path == get_merkle_path(run.leaves, run.index, run.depth)
           leaf == run.leaves[run.index + 1]
       IN run' = [op |-> "merkle_on_tree", depth |-> run.depth, leaves |-> run.leaves,
                  index |-> run.index, leaf |-> leaf, path |-> path,
                  out |-> verify_merkle_path_with_hasher(
                              leaf, Fr(run.index), path, run.depth)]
    /\ UNCHANGED proverVars

\* the Merkle gadget on arbitrary (leaf, index, siblings, depth)
RunMerkle ==
    /\ Pending("merkle")
    /\ run' = [op |-> "merkle", depth |-> run.depth, index |-> run.index,
               leaf |-> run.leaf, path |-> run.path,
               out |-> verify_merkle_path_with_hasher(
                           run.leaf, Fr(run.index), run.path, run.depth)]
    /\ UNCHANGED proverVars

\* test_merkle_reject_wrong_sibling: the gadget on a tree leaf and its path
\* after one sibling was overwritten
RunMerkleWrongSibling ==
    /\ Pending("merkle_wrong_sibling")
    /\ LET valid == get_merkle_path(run.leaves, run.index, run.depth)
           path == [valid EXCEPT ![run.level] = run.value]
           leaf == run.leaves[run.index + 1]
       IN run' = [op |-> "merkle_wrong_sibling", depth |-> run.depth,
                  leaves |-> run.leaves, index |-> run.index, leaf |-> leaf,
                  level |-> run.level, valid |-> valid, path |-> path,
                  root |-> build_test_tree(run.leaves, run.depth),
                  out |-> verify_merkle_path_with_hasher(
                              leaf, Fr(run.index), path, run.depth)]
    /\ UNCHANGED proverVars

\* the membership circuit on a witness set
RunMembership ==
    /\ Pending("verify_membership")
    /\ run' = [op |-> "verify_membership", circuit |-> run.circuit,
               out |-> verify_membership(run.circuit)]
    /\ UNCHANGED proverVars

InitCircuit ==
    /\ \/ DrawDecompose \/ DrawMerkleOnTree \/ DrawMerkle \/ DrawMembership
       \/ DrawWrongSibling
    /\ ProverIdle

NextCircuit ==
    \/ RunDecompose
    \/ RunMerkleOnTree
    \/ RunMerkle
    \/ RunMerkleWrongSibling
    \/ RunMembership

SpecCircuit == InitCircuit /\ [][NextCircuit]_vars

(***************************************************************************)
(* Claims on the circuit (SpecCircuit).                                    *)
(***************************************************************************)
RECURSIVE FoldPath(_, _, _, _)
\* the fold of a sibling path from a leaf, oriented by the bits of the index
FoldPath(leaf, index, path, j) ==
    IF j = 0 THEN leaf
    ELSE LET below == FoldPath(leaf, index, path, j - 1)
         IN IF (index \div (2 ^ (j - 1))) % 2 = 0
            THEN <<"poseidon2", below, path[j]>>
            ELSE <<"poseidon2", path[j], below>>

MembershipDone == run.op = "verify_membership"

ValidWitness(c) ==
    Len(c.merkle_path) = TREE_DEPTH /\ c.leaf_index < 2 ^ TREE_DEPTH

\* C2: for every witness with leaf_index < 2^12 and a 12-element path,
\* verify_membership returns (fold of the path from hash1(identity),
\* hash2(identity, action_id), action_id): the nullifier is derived from the
\* identity witness and the action alone.
C2_MembershipOutputs ==
    (MembershipDone /\ ValidWitness(run.circuit)) =>
        LET c == run.circuit
        IN /\ ~run.out.panic
           /\ run.out.satisfied
           /\ run.out.outputs =
                <<FoldPath(<<"poseidon1", c.identity_commitment>>, c.leaf_index,
                           c.merkle_path, TREE_DEPTH),
                  <<"poseidon2", c.identity_commitment, c.action_id>>,
                  c.action_id>>

C2_Witness ==
    /\ MembershipDone
    /\ ValidWitness(run.circuit)
    /\ run.circuit.leaf_index = 2 ^ TREE_DEPTH - 1
    /\ run.circuit.identity_commitment = Fr(1001)
    /\ run.circuit.action_id = Fr(555)
    /\ run.circuit.merkle_path[1] = Fr(2000)
    /\ run.out.outputs[2] = <<"poseidon2", Fr(1001), Fr(555)>>

\* C3: on a leaf i of a depth-D tree built with hash2 and its sibling path the
\* gadget is satisfied and computes the tree's root; the node after level j is
\* hash2(cur, sibling_j) when bit j of i is 0 and hash2(sibling_j, cur) when
\* it is 1, and it is the tree's node above leaf i at that level.
C3_MerkleOnTree ==
    (run.op = "merkle_on_tree") =>
        /\ ~run.out.panic
        /\ run.out.satisfied
        /\ run.out.root = build_test_tree(run.leaves, run.depth)
        /\ \A j \in 1..run.depth :
              LET cur == IF j = 1 THEN run.leaf ELSE run.out.nodes[j - 1]
                  bit == (run.index \div (2 ^ (j - 1))) % 2
              IN /\ bit = 0 => run.out.nodes[j] = <<"poseidon2", cur, run.path[j]>>
                 /\ bit = 1 => run.out.nodes[j] = <<"poseidon2", run.path[j], cur>>
                 /\ run.out.nodes[j] =
                      TreeLevel(run.leaves, j)[(run.index \div (2 ^ j)) + 1]

C3_Witness ==
    /\ run.op = "merkle_on_tree"
    /\ run.depth = MaxDepth
    /\ run.index = 2 ^ run.depth - 1
    /\ run.leaves[1] # run.leaves[2 ^ run.depth]
    /\ run.out.root = build_test_tree(run.leaves, run.depth)
    /\ \A j \in 1..run.depth : run.out.nodes[j][2] = run.path[j]

\* values a bit cell may be assigned: the booleans and a non-boolean
CellValues == 0..2

\* C4: decomposing a witnessed v into n bits is satisfiable iff v < 2^n (no
\* assignment of the bit cells satisfies the constraints when v >= 2^n), and
\* the gadgets built on it are satisfied exactly when the index is in range.
C4_DecomposeRange ==
    /\ (run.op = "decompose_to_bits") =>
          /\ run.out.satisfied <=> run.v < 2 ^ run.n
          /\ (\E bits \in [1..run.n -> CellValues] :
                  BitConstraintsHold(bits, run.n, run.v)) <=> run.v < 2 ^ run.n
    /\ (run.op \in {"merkle", "merkle_on_tree"} /\ ~run.out.panic) =>
          (run.out.satisfied <=> run.index < 2 ^ run.depth)
    /\ (MembershipDone /\ ~run.out.panic) =>
          (run.out.satisfied <=> run.circuit.leaf_index < 2 ^ TREE_DEPTH)

C4_Witness ==
    /\ run.op = "decompose_to_bits"
    /\ run.n = MaxDepth
    /\ run.v = 2 ^ run.n
    /\ ~run.out.satisfied

\* the emissions that add constraints to the system
ConstraintOps == {"initialize_consts", "hash_fix_len_array", "decompose_to_bits",
                  "select"}

Constraints(emitted) ==
    {i \in 1..Len(emitted) : emitted[i].op \in ConstraintOps}

\* C15: for every (leaf, index, siblings) with |siblings| # DEPTH circuit
\* construction fails before any constraint is emitted, both when the Merkle
\* gadget is called directly and when it is reached through verify_membership.
C15_NoConstraintBeforeLengthFailure ==
    /\ (run.op = "merkle" /\ Len(run.path) # run.depth) =>
          run.out.panic /\ Constraints(run.out.emitted) = {}
    /\ (MembershipDone /\ Len(run.circuit.merkle_path) # TREE_DEPTH) =>
          run.out.panic /\ Constraints(run.out.emitted) = {}

\* C17: the root is not constrained.  Any siblings of the right length with an
\* index in range satisfy the constraints; a valid path with one sibling
\* replaced by another value is satisfied too and computes a root other than
\* the tree's; the membership circuit exposes the computed root as its first
\* public output.
C17_RootUnconstrained ==
    /\ (run.op = "merkle" /\ Len(run.path) = run.depth
          /\ run.index < 2 ^ run.depth) =>
          ~run.out.panic /\ run.out.satisfied
    /\ (run.op = "merkle_wrong_sibling") =>
          /\ ~run.out.panic
          /\ run.out.satisfied
          /\ run.out.root # run.root
          /\ verify_merkle_path_with_hasher(
                 run.leaf, Fr(run.index), run.valid, run.depth).root = run.root
    /\ (MembershipDone /\ ValidWitness(run.circuit)) =>
          /\ run.out.satisfied
          /\ run.out.outputs[1] =
                verify_merkle_path_with_hasher(
                    hash_single_with_hasher(run.circuit.identity_commitment),
                    Fr(run.circuit.leaf_index), run.circuit.merkle_path,
                    TREE_DEPTH).root

C17_Witness ==
    /\ run.op = "merkle_wrong_sibling"
    /\ run.depth = MaxDepth
    /\ run.level = 1
    /\ run.index = 0
    /\ run.path[run.level] = Fr(99999)
    /\ run.out.satisfied
    /\ run.out.root # run.root

\* witness sets that differ from c in any of identity, action, index, path
Variants(c) ==
    {[identity_commitment |-> i, action_id |-> a, leaf_index |-> x,
      merkle_path |-> [c.merkle_path EXCEPT ![1] = s]] :
        i \in Identities, a \in Actions, x \in 0..MaxLowIndex,
        s \in SiblingValues}

nullifier(c) == verify_membership(c).outputs[2]

\* C18: the nullifier is never zero; with the identity fixed, different
\* actions give different nullifiers; with the action fixed, different
\* identities give different nullifiers; witness sets with the same identity
\* and action give the same nullifier whatever the leaf index and the path.
C18_NullifierSeparates ==
    (MembershipDone /\ ~run.out.panic) =>
        LET c == run.circuit
            n == run.out.outputs[2]
        IN /\ n # FrZero
           /\ \A d \in Variants(c) :
                 /\ (d.identity_commitment = c.identity_commitment
                       /\ d.action_id # c.action_id) => nullifier(d) # n
                 /\ (d.action_id = c.action_id
                       /\ d.identity_commitment # c.identity_commitment) =>
                          nullifier(d) # n
                 /\ (d.action_id = c.action_id
                       /\ d.identity_commitment = c.identity_commitment) =>
                          nullifier(d) = n

C18_Witness ==
    /\ MembershipDone
    /\ ValidWitness(run.circuit)
    /\ run.circuit.identity_commitment = FrZero
    /\ run.circuit.action_id = FrZero
    /\ run.circuit.leaf_index = 1
    /\ run.out.outputs[2] = <<"poseidon2", FrZero, FrZero>>
    /\ \E d \in Variants(run.circuit) :
          /\ d.leaf_index # run.circuit.leaf_index
          /\ d.merkle_path # run.circuit.merkle_path
          /\ nullifier(d) = run.out.outputs[2]

Count(emitted, op) == Cardinality({i \in 1..Len(emitted) : emitted[i].op = op})

\* C19: one execution of verify_membership materializes the Poseidon
\* constants exactly once, before the leaf hash, and every one of its
\* 1 + 2 * 12 + 1 hashes runs on the hasher initialized then.
C19_ConstantsOnce ==
    (MembershipDone /\ ~run.out.panic) =>
        LET e == run.out.emitted
        IN /\ Count(e, "initialize_consts") = 1
           /\ e[1].op = "initialize_consts"
           /\ Count(e, "hash_fix_len_array") = 2 * TREE_DEPTH + 2
           /\ \A i \in 1..Len(e) :
                 e[i].op = "hash_fix_len_array" => i > 1 /\ e[i].hasher = e[1].hasher

C19_Witness ==
    /\ MembershipDone
    /\ ~run.out.panic
    /\ run.out.satisfied
    /\ Count(run.out.emitted, "hash_fix_len_array") = 2 * TREE_DEPTH + 2
    /\ Count(run.out.emitted, "initialize_consts") = 1

(***************************************************************************)
(* Prover layer: files, parameter sets and digests.                        *)
(*                                                                         *)
(* A file's content is named by what was written to it.  The Blake2b-512   *)
(* digest is a table on those contents (distinct contents have distinct    *)
(* digests; digests are shown by their leading 16 hex digits), and a       *)
(* deserialized parameter set is the term of the bytes it was read from.   *)
(***************************************************************************)
Absent == "absent"                      \* no such file
Corrupt == "corrupt"                    \* bytes no deserializer accepts
CanonicalSrs == "axiom_challenge_0085"  \* the Axiom challenge_0085 k=14 file
OtherSrs == "other_srs"                 \* a well-formed SRS with other content
TestSrs == "test_srs"                   \* parameters of an earlier setup(k, OsRng)
GeneratedSrs == "generated_srs"         \* parameters of setup(k, OsRng) in this call

CANONICAL_HASH_K14 == "5d56001304a118d5"

Blake2b512Hex(bytes) ==
    CASE bytes = CanonicalSrs -> "5d56001304a118d5"
      [] bytes = OtherSrs -> "c04f1e2ab9d37a11"
      [] bytes = TestSrs -> "19be7730a6d2f4c8"
      [] bytes = GeneratedSrs -> "e7a2405f8b61cd93"
      [] OTHER -> "8f3302d1c5a9e670"

NoParams == <<"ParamsKZG", "none">>

NoErr == [kind |-> "none"]

\* ParamsKZG::read_custom / ParamsKZG::read on a byte buffer
read_custom(bytes) ==
    IF bytes = Corrupt
    THEN [ok |-> FALSE, params |-> NoParams]
    ELSE [ok |-> TRUE, params |-> <<"ParamsKZG", bytes>>]

\* ParamsKZG::setup(k, OsRng)
setup(k) == <<"ParamsKZG", GeneratedSrs>>

\* ParamsKZG::write: the bytes of a parameter set
params_write(params) == params[2]

LoadOk(params, steps, d) ==
    [ok |-> TRUE, params |-> params, err |-> NoErr, steps |-> steps, disk |-> d]

LoadErr(err, steps, d) ==
    [ok |-> FALSE, params |-> NoParams, err |-> err, steps |-> steps, disk |-> d]

ceremony_path(k) == <<"axiom_params_k", k, ".srs">>

\* the test-parameter block without its cfg(debug_assertions) attribute
test_block_enabled_any_build(debug_assertions, allow_test_params) ==
    allow_test_params

\* #[cfg(debug_assertions)] if allow_test_params { ... }
test_block_enabled(debug_assertions, allow_test_params) ==
    debug_assertions /\ allow_test_params

\* native loader: ./kzg_params/axiom_params_k{k}.srs, else test parameters
load_ceremony_params(k, allow_test_params, d, debug_assertions) ==
    IF d.k = k /\ d.ceremony # Absent
    THEN LET buffer == d.ceremony
             hash_hex == Blake2b512Hex(buffer)
             hashed == <<"exists_ceremony", "read_ceremony", "blake2b512">>
         IN IF k = 14 /\ hash_hex # CANONICAL_HASH_K14
            THEN LoadErr([kind |-> "HashMismatch", expected |-> CANONICAL_HASH_K14,
                          got |-> hash_hex, k |-> k],
                         hashed \o <<"compare_digest">>, d)
            ELSE LET checked == IF k = 14 THEN <<"compare_digest">>
                                          ELSE <<"warn_unverified">>
                     steps == hashed \o checked \o <<"deserialize_params">>
                     r == read_custom(buffer)
                 IN IF r.ok
                    THEN LoadOk(r.params, steps, d)
                    ELSE LoadErr([kind |-> "DeserializeFailed"], steps, d)
    ELSE IF test_block_enabled(debug_assertions, allow_test_params)
    THEN IF d.test[k] # Absent
         THEN LET r == read_custom(d.test[k])
                  steps == <<"exists_test", "read_test", "deserialize_params">>
              IN IF r.ok
                 THEN LoadOk(r.params, steps, d)
                 ELSE LoadErr([kind |-> "DeserializeFailed"], steps, d)
         ELSE LET params == setup(k)
              IN LoadOk(params, <<"generate_params", "write_test">>,
                        [d EXCEPT !.test[k] = params_write(params)])
    ELSE LoadErr([kind |-> "ParamsNotFound", required_file |-> ceremony_path(k),
                  setup_instructions |-> TRUE, k |-> k],
                 <<>>, d)

\* WASM loader: the embedded k=14 bytes, else generated under the build flag
\* mutant: parameters generated for other k whatever the compile-time flag
load_ceremony_params_wasm_setup_any(k, embedded, allow) ==
    IF k = 14
    THEN LET hash_hex == Blake2b512Hex(embedded)
             hashed == <<"blake2b512", "compare_digest">>
         IN IF hash_hex # CANONICAL_HASH_K14
            THEN LoadErr([kind |-> "HashMismatch", expected |-> CANONICAL_HASH_K14,
                          got |-> hash_hex, k |-> k], hashed, <<>>)
            ELSE LET r == read_custom(embedded)
                     steps == hashed \o <<"deserialize_params">>
                 IN IF r.ok
                    THEN LoadOk(r.params, steps, <<>>)
                    ELSE LoadErr([kind |-> "DeserializeFailed"], steps, <<>>)
    ELSE LoadOk(setup(k), <<"generate_params">>, <<>>)

load_ceremony_params_wasm(k, embedded, allow) ==
    IF k = 14
    THEN LET hash_hex == Blake2b512Hex(embedded)
             hashed == <<"blake2b512", "compare_digest">>
         IN IF hash_hex # CANONICAL_HASH_K14
            THEN LoadErr([kind |-> "HashMismatch", expected |-> CANONICAL_HASH_K14,
                          got |-> hash_hex, k |-> k], hashed, <<>>)
            ELSE LET r == read_custom(embedded)
                     steps == hashed \o <<"deserialize_params">>
                 IN IF r.ok
                    THEN LoadOk(r.params, steps, <<>>)
                    ELSE LoadErr([kind |-> "DeserializeFailed"], steps, <<>>)
    ELSE IF allow
    THEN LoadOk(setup(k), <<"generate_params">>, <<>>)
    ELSE LoadErr([kind |-> "UnsupportedK", k |-> k], <<>>, <<>>)

(***************************************************************************)
(* Circuit shape, keys and their serialized forms.                         *)
(***************************************************************************)
SINGLE_TIER_CELLS == 95000    \* advice cells of the single-tier circuit
TWO_TIER_CELLS == 189780      \* advice cells of the earlier two-tier circuit
BLINDING_ROWS == 9            \* calculate_params(Some(9))
LOOKUP_BITS == 8              \* set_lookup_bits(8)
MIN_K == 10
MAX_K == 20

AbsentFile == [kind |-> "absent"]

CorruptFile == [kind |-> "corrupt"]

NoConfig == [kind |-> "none"]

\* builder.calculate_params(Some(9)) after the circuit of `cells` advice cells
\* has been run in keygen stage with use_k(k)
calculate_params(k, cells) ==
    LET usable == 2 ^ k - BLINDING_ROWS
    IN [kind |-> "BaseCircuitParams", k |-> k,
        num_advice_per_phase |-> <<(cells + usable - 1) \div usable>>,
        lookup_bits |-> LOOKUP_BITS, num_instance_columns |-> 1]

\* builder.break_points() of that keygen run: the row at which each advice
\* column but the last one ends
break_points_of(k, cells) ==
    LET config == calculate_params(k, cells)
    IN <<[i \in 1..(config.num_advice_per_phase[1] - 1) |->
              2 ^ k - BLINDING_ROWS - 1]>>

\* keygen_vk / keygen_pk on a builder of the given shape
keygen_vk(params, k, cells) ==
    <<"VerifyingKey", calculate_params(k, cells), break_points_of(k, cells),
      params_write(params)>>

keygen_pk(params, vk) == <<"ProvingKey", vk>>

get_vk(pk) == pk[2]

pk_config(pk) == pk[2][2]

pk_break_points(pk) == pk[2][3]

\* pk.write / vk.write with SerdeFormat::RawBytesUnchecked
key_write(key) == [kind |-> "key_bytes", key |-> key]

\* serde_json::to_string / serde_json::from_str
to_json(value) == [kind |-> "json", value |-> value]

from_json(text) ==
    IF text.kind = "json" THEN [ok |-> TRUE, value |-> text.value]
                          ELSE [ok |-> FALSE, value |-> NoConfig]

KeyFailed == <<"Key", "none">>

\* ProvingKey::read / VerifyingKey::read with the caller's config_params: the
\* bytes carry no shape, so when config_params is not the shape of the keygen
\* run the library may fail or may return a key (lib_accepts)
key_read(bytes, want, config_params, lib_accepts) ==
    IF bytes.kind # "key_bytes" \/ bytes.key[1] # want
    THEN [ok |-> FALSE, key |-> KeyFailed]
    ELSE LET stored == IF want = "ProvingKey" THEN pk_config(bytes.key)
                                              ELSE bytes.key[2]
         IN IF stored = config_params \/ lib_accepts
            THEN [ok |-> TRUE, key |-> bytes.key]
            ELSE [ok |-> FALSE, key |-> KeyFailed]

NotLoaded == [ok |-> FALSE, params |-> NoParams, err |-> NoErr, steps |-> <<>>]

NewErr(err, steps, d, loaded, read_config) ==
    [ok |-> FALSE, err |-> err, steps |-> steps, disk |-> d, prover |-> NoProver,
     loaded |-> [ok |-> loaded.ok, params |-> loaded.params, err |-> loaded.err,
                 steps |-> loaded.steps],
     read_config |-> read_config]

NewOk(p, steps, d, loaded, read_config) ==
    [ok |-> TRUE, err |-> NoErr, steps |-> steps, disk |-> d, prover |-> p,
     loaded |-> [ok |-> loaded.ok, params |-> loaded.params, err |-> loaded.err,
                 steps |-> loaded.steps],
     read_config |-> read_config]

MakeProver(surface, k, params, pk, vk, config_params, break_points) ==
    [some |-> TRUE, surface |-> surface, k |-> k, params |-> params, pk |-> pk,
     vk |-> vk, config_params |-> config_params, break_points |-> break_points]

(***************************************************************************)
(* Constructors.                                                           *)
(***************************************************************************)
\* native Prover::new(k)
native_new(k, env, d, debug_assertions, lib_accepts) ==
    IF k < MIN_K \/ k > MAX_K
    THEN NewErr([kind |-> "InvalidK", k |-> k], <<"range_check">>, d,
                NotLoaded, NoConfig)
    ELSE
    LET allow_test_params == env.ALLOW_TEST_PARAMS = "1"
        load == load_ceremony_params(k, allow_test_params, d, debug_assertions)
        s1 == <<"range_check", "read_env">> \o load.steps
    IN IF ~load.ok THEN NewErr(load.err, s1, load.disk, load, NoConfig) ELSE
    LET config_params == calculate_params(k, SINGLE_TIER_CELLS)
        pk_file == IF d.k = k THEN d.pk ELSE AbsentFile
        s2 == s1 \o <<"calculate_params_dummy", "exists_pk">>
    IN IF pk_file.kind = "absent"
       THEN NewErr([kind |-> "PkNotFound"], s2, load.disk, load, NoConfig) ELSE
    LET pk == key_read(pk_file, "ProvingKey", config_params, lib_accepts)
        s3 == s2 \o <<"deserialize_pk">>
    IN IF ~pk.ok
       THEN NewErr([kind |-> "PkDeserializeFailed"], s3, load.disk, load,
                   config_params) ELSE
    LET vk == get_vk(pk.key)
        bp_file == IF d.k = k THEN d.break_points ELSE AbsentFile
        s4 == s3 \o <<"get_vk", "exists_break_points">>
    IN IF bp_file.kind = "absent"
       THEN NewErr([kind |-> "BreakPointsNotFound"], s4, load.disk, load,
                   config_params) ELSE
    LET break_points == from_json(bp_file)
        s5 == s4 \o <<"read_break_points", "parse_break_points">>
    IN IF ~break_points.ok
       THEN NewErr([kind |-> "BreakPointsParseFailed"], s5, load.disk, load,
                   config_params)
       ELSE NewOk(MakeProver("native", k, load.params, pk.key, vk, config_params,
                             break_points.value),
                  s5, load.disk, load, config_params)

\* mutant: the WASM constructor without its range test on k
wasm_new_any_k(k, embedded, allow) ==
    LET config_params == calculate_params(k, SINGLE_TIER_CELLS)
        load == load_ceremony_params_wasm(k, embedded, allow)
        s1 == <<"run_dummy_circuit", "calculate_params_dummy">> \o load.steps
    IN IF ~load.ok THEN NewErr(load.err, s1, <<>>, load, NoConfig) ELSE
    LET vk == keygen_vk(load.params, k, SINGLE_TIER_CELLS)
        pk == keygen_pk(load.params, vk)
        break_points == break_points_of(k, SINGLE_TIER_CELLS)
    IN NewOk(MakeProver("wasm", k, load.params, pk, vk, config_params, break_points),
             s1 \o <<"keygen_vk", "keygen_pk", "break_points">>, <<>>, load,
             NoConfig)

\* WASM Prover::new(k): keygen in the browser
wasm_new(k, embedded, allow) ==
    IF k < MIN_K \/ k > MAX_K
    THEN NewErr([kind |-> "InvalidK", k |-> k], <<"range_check">>, <<>>,
                NotLoaded, NoConfig)
    ELSE
    LET config_params == calculate_params(k, SINGLE_TIER_CELLS)
        load == load_ceremony_params_wasm(k, embedded, allow)
        s1 == <<"range_check", "run_dummy_circuit", "calculate_params_dummy">>
                  \o load.steps
    IN IF ~load.ok THEN NewErr(load.err, s1, <<>>, load, NoConfig) ELSE
    LET vk == keygen_vk(load.params, k, SINGLE_TIER_CELLS)
        pk == keygen_pk(load.params, vk)
        break_points == break_points_of(k, SINGLE_TIER_CELLS)
    IN NewOk(MakeProver("wasm", k, load.params, pk, vk, config_params, break_points),
             s1 \o <<"keygen_vk", "keygen_pk", "break_points">>, <<>>, load,
             NoConfig)

\* WASM Prover::from_cache(k, params_bytes, pk_bytes, vk_bytes, config_json,
\* breakpoints_json)
from_cache(k, c, allow, lib_accepts) ==
    IF k # 14 /\ ~allow
    THEN NewErr([kind |-> "UnsupportedK", k |-> k], <<"k_check">>, <<>>,
                NotLoaded, NoConfig)
    ELSE
    LET config_params == from_json(c.config_json)
        s1 == <<"k_check", "parse_config">>
    IN IF ~config_params.ok
       THEN NewErr([kind |-> "ConfigParseFailed"], s1, <<>>, NotLoaded, NoConfig)
       ELSE
    LET break_points == from_json(c.breakpoints_json)
        s2 == s1 \o <<"parse_break_points">>
    IN IF ~break_points.ok
       THEN NewErr([kind |-> "BreakPointsParseFailed"], s2, <<>>, NotLoaded,
                   NoConfig) ELSE
    LET params == read_custom(c.params_bytes)
        s3 == s2 \o <<"deserialize_params">>
        load == [ok |-> params.ok, params |-> params.params, err |-> NoErr,
                 steps |-> <<"deserialize_params">>]
    IN IF ~params.ok
       THEN NewErr([kind |-> "DeserializeFailed"], s3, <<>>, load, NoConfig) ELSE
    LET vk == key_read(c.vk_bytes, "VerifyingKey", config_params.value, lib_accepts)
        s4 == s3 \o <<"deserialize_vk">>
    IN IF ~vk.ok
       THEN NewErr([kind |-> "VkDeserializeFailed"], s4, <<>>, load,
                   config_params.value) ELSE
    LET pk == key_read(c.pk_bytes, "ProvingKey", config_params.value, lib_accepts)
        s5 == s4 \o <<"deserialize_pk">>
    IN IF ~pk.ok
       THEN NewErr([kind |-> "PkDeserializeFailed"], s5, <<>>, load,
                   config_params.value)
       ELSE NewOk(MakeProver("wasm", k, params.params, pk.key, vk.key,
                             config_params.value, break_points.value),
                  s5, <<>>, load, config_params.value)

(***************************************************************************)
(* Spec: prover construction.  Init draws the build, the environment and   *)
(* the files (native) or the cached blobs (WASM); each action is one call  *)
(* of a constructor.                                                       *)
(***************************************************************************)
Ks == {MIN_K - 1, 12, 14, MAX_K + 1}

DiskKs == {12, 14}

CeremonyParams == read_custom(CanonicalSrs).params

KeygenShapes == {SINGLE_TIER_CELLS, TWO_TIER_CELLS}

\* what a keygen run on a circuit of the given shape leaves behind
PkBytesOf(k, cells) ==
    key_write(keygen_pk(CeremonyParams, keygen_vk(CeremonyParams, k, cells)))

VkBytesOf(k, cells) == key_write(keygen_vk(CeremonyParams, k, cells))

ConfigJsonOf(k, cells) == to_json(calculate_params(k, cells))

BreakPointsJsonOf(k, cells) == to_json(break_points_of(k, cells))

NoTestFiles == [k \in MIN_K..MAX_K |-> Absent]

DisksOf(k) ==
    {[k |-> k, ceremony |-> ceremony,
      test |-> [NoTestFiles EXCEPT ![k] = test],
      pk |-> pk, break_points |-> bp] :
        ceremony \in {Absent, CanonicalSrs, OtherSrs, Corrupt},
        test \in {Absent, TestSrs},
        pk \in {AbsentFile, CorruptFile} \cup
               {PkBytesOf(k, cells) : cells \in KeygenShapes},
        bp \in {AbsentFile, CorruptFile} \cup
               {BreakPointsJsonOf(k, cells) : cells \in KeygenShapes}}

Disks == UNION {DisksOf(k) : k \in DiskKs}

NoDisk == [k |-> 14, ceremony |-> Absent]

Caches ==
    [some : {TRUE},
     params_bytes : {CanonicalSrs, OtherSrs, Corrupt},
     pk_bytes : {PkBytesOf(14, cells) : cells \in KeygenShapes} \cup {CorruptFile},
     vk_bytes : {VkBytesOf(14, cells) : cells \in KeygenShapes} \cup {CorruptFile},
     config_json : {ConfigJsonOf(14, cells) : cells \in KeygenShapes}
                       \cup {CorruptFile},
     breakpoints_json : {BreakPointsJsonOf(14, cells) : cells \in KeygenShapes}
                            \cup {CorruptFile}]

EnvValues == {"unset", "1", "true"}

NativeBuilds ==
    [target : {"native"}, debug_assertions : BOOLEAN, option_env_allow : BOOLEAN,
     embedded : {CanonicalSrs}]

WasmBuilds ==
    [target : {"wasm"}, debug_assertions : {FALSE}, option_env_allow : BOOLEAN,
     embedded : {CanonicalSrs, OtherSrs}]

InitNative ==
    /\ build \in NativeBuilds
    /\ environ \in [ALLOW_TEST_PARAMS : EnvValues]
    /\ disk \in Disks
    /\ cache = NoCache

InitWasm ==
    /\ build \in WasmBuilds
    /\ environ = [ALLOW_TEST_PARAMS |-> "unset"]
    /\ disk = NoDisk
    /\ cache \in Caches

Init ==
    /\ run = Idle
    /\ prover = NoProver
    /\ call = Idle
    /\ InitNative \/ InitWasm

CallOf(fn, surface, k, r) ==
    [op |-> fn, surface |-> surface, k |-> k, ok |-> r.ok, err |-> r.err,
     steps |-> r.steps, loaded |-> r.loaded, read_config |-> r.read_config,
     prover |-> r.prover]

\* native Prover::new(k)
NativeNew ==
    /\ build.target = "native"
    /\ \E k \in Ks, lib_accepts \in BOOLEAN :
          LET r == native_new(k, environ, disk, build.debug_assertions, lib_accepts)
          IN /\ call' = CallOf("new", "native", k, r)
             /\ prover' = IF r.ok THEN r.prover ELSE prover
             /\ disk' = r.disk
    /\ UNCHANGED <<run, build, environ, cache>>

\* WASM new Prover(k)
WasmNew ==
    /\ build.target = "wasm"
    /\ \E k \in Ks :
          LET r == wasm_new(k, build.embedded, build.option_env_allow)
          IN /\ call' = CallOf("new", "wasm", k, r)
             /\ prover' = IF r.ok THEN r.prover ELSE prover
    /\ UNCHANGED <<run, build, environ, disk, cache>>

\* WASM Prover.fromCache(k, ...) on the blobs the host holds
FromCache ==
    /\ build.target = "wasm"
    /\ cache.some
    /\ \E k \in Ks, lib_accepts \in BOOLEAN :
          LET r == from_cache(k, cache, build.option_env_allow, lib_accepts)
          IN /\ call' = CallOf("from_cache", "wasm", k, r)
             /\ prover' = IF r.ok THEN r.prover ELSE prover
    /\ UNCHANGED <<run, build, environ, disk, cache>>

Next == NativeNew \/ WasmNew \/ FromCache

Spec == Init /\ [][Next]_vars

(***************************************************************************)
(* Claims on prover construction (Spec).                                   *)
(***************************************************************************)
InSteps(s, steps) == \E i \in 1..Len(steps) : steps[i] = s

Constructed == call.op \in {"new", "from_cache"} /\ call.ok

NativeLoad ==
    call.op = "new" /\ call.surface = "native" /\ InSteps("read_env", call.steps)

\* neither cfg(debug_assertions) nor the compile-time ALLOW_TEST_PARAMS
ProductionBuild == ~build.debug_assertions /\ ~build.option_env_allow

\* C5: in a production build every Prover constructed with k = 14, by any
\* constructor, holds parameters whose Blake2b-512 digest is the canonical
\* k = 14 digest (construction from other bytes yields no Prover).
C5_ProverParamsCanonical ==
    (ProductionBuild /\ Constructed /\ call.k = 14) =>
        Blake2b512Hex(params_write(call.prover.params)) = CANONICAL_HASH_K14

\* the canonical digests the native loader holds, by k
CanonicalDigests == [k \in {14} |-> CANONICAL_HASH_K14]

CeremonyFileAbsent == ~(disk.k = call.k /\ disk.ceremony # Absent)

\* C6: for every k in [10, 20] the native loader returns the parameters of the
\* on-disk ceremony file only if a canonical digest is hard-coded for that k
\* and the file's Blake2b-512 digest equals it.
C6_FileAcceptedOnlyOnCanonicalDigest ==
    (NativeLoad /\ call.loaded.ok /\ InSteps("read_ceremony", call.loaded.steps)) =>
        /\ call.k \in DOMAIN CanonicalDigests
        /\ Blake2b512Hex(disk.ceremony) = CanonicalDigests[call.k]

\* C7: in both loaders every deserialization of ceremony bytes comes after a
\* digest comparison, and a digest mismatch is an error that names the
\* expected and the actual digest, returned before any deserialization.
C7_CompareBeforeDeserialize ==
    (call.op = "new") =>
        LET st == call.loaded.steps
        IN /\ \A i \in 1..Len(st) :
                 (st[i] = "deserialize_params" /\ InSteps("blake2b512", st)) =>
                     \E j \in 1..(i - 1) : st[j] = "compare_digest"
           /\ (call.err.kind = "HashMismatch") =>
                 /\ ~call.ok
                 /\ call.err.expected = CANONICAL_HASH_K14
                 /\ call.err.got = Blake2b512Hex(IF call.surface = "native"
                                                 THEN disk.ceremony
                                                 ELSE build.embedded)
                 /\ call.err.got # call.err.expected
                 /\ ~InSteps("deserialize_params", st)

TestParamsUsed ==
    /\ call.loaded.ok
    /\ \/ InSteps("generate_params", call.loaded.steps)
       \/ InSteps("read_test", call.loaded.steps)

ReleaseAbsenceIsFatal ==
    (~build.debug_assertions /\ CeremonyFileAbsent) =>
        /\ ~call.ok
        /\ call.prover = NoProver
        /\ call.err.kind = "ParamsNotFound"
        /\ call.err.setup_instructions
        /\ call.err.required_file = ceremony_path(call.k)
        /\ ~InSteps("generate_params", call.steps)
        /\ ~InSteps("write_test", call.steps)
        /\ ~InSteps("read_test", call.steps)

C9_PersistedConfigUsed ==
    (call.op = "new" /\ call.surface = "native"
        /\ InSteps("deserialize_pk", call.steps)
        /\ disk.pk.kind = "key_bytes") =>
        /\ call.read_config = pk_config(disk.pk.key)
        /\ call.ok => call.prover.config_params = pk_config(disk.pk.key)

\* C10: a constructor that loads persisted artifacts returns a Prover only if
\* the loaded break points and configuration params are those captured at the
\* keygen of the loaded proving key.
C10_ShapeMismatchIsFatal ==
    (Constructed /\ (call.surface = "native" \/ call.op = "from_cache")) =>
        /\ call.prover.break_points = pk_break_points(call.prover.pk)
        /\ call.prover.config_params = pk_config(call.prover.pk)

(***************************************************************************)
(* Text inputs of the WASM surface.  A string is the sequence of its       *)
(* characters; a field element read from text is Fr(n) when it is below    *)
(* 2^24 and the term of its 32 big-endian bytes otherwise.                 *)
(***************************************************************************)
FR_BYTES == 32

\* big-endian bytes of the BN254 scalar-field modulus
MODULUS_BE ==
    <<48, 100, 78, 114, 225, 49, 160, 41, 184, 80, 69, 182, 129, 129, 88, 93,
      40, 51, 232, 72, 121, 185, 112, 145, 67, 225, 245, 147, 240, 0, 0, 1>>

HexVal(c) ==
    CASE c = "0" -> 0 [] c = "1" -> 1 [] c = "2" -> 2 [] c = "3" -> 3
      [] c = "4" -> 4 [] c = "5" -> 5 [] c = "6" -> 6 [] c = "7" -> 7
      [] c = "8" -> 8 [] c = "9" -> 9
      [] c \in {"a", "A"} -> 10 [] c \in {"b", "B"} -> 11
      [] c \in {"c", "C"} -> 12 [] c \in {"d", "D"} -> 13
      [] c \in {"e", "E"} -> 14 [] c \in {"f", "F"} -> 15
      [] OTHER -> -1

DecVal(c) == IF c \in {"0", "1", "2", "3", "4", "5", "6", "7", "8", "9"}
             THEN HexVal(c) ELSE -1

starts_with(s, a, b) == Len(s) >= 2 /\ s[1] = a /\ s[2] = b

strip_prefix_0x(s) == IF starts_with(s, "0", "x") THEN SubSeq(s, 3, Len(s)) ELSE s

\* hex::decode
hex_decode(s) ==
    IF Len(s) % 2 = 1 \/ \E i \in 1..Len(s) : HexVal(s[i]) < 0
    THEN [ok |-> FALSE, bytes |-> <<>>]
    ELSE [ok |-> TRUE,
          bytes |-> [i \in 1..(Len(s) \div 2) |->
                        16 * HexVal(s[2 * i - 1]) + HexVal(s[2 * i])]]

\* lexicographic a < b on big-endian byte strings of equal length
BeLess(a, b) ==
    \E i \in 1..Len(a) : a[i] < b[i] /\ \A j \in 1..(i - 1) : a[j] = b[j]

\* Fr::from_bytes on the reversed (little-endian) buffer: the canonical
\* element of the big-endian value, None when it is not below the modulus
from_bytes_be(padded_be) ==
    IF ~BeLess(padded_be, MODULUS_BE)
    THEN [ok |-> FALSE, value |-> FrZero]
    ELSE IF \A i \in 1..(FR_BYTES - 3) : padded_be[i] = 0
    THEN [ok |-> TRUE,
          value |-> Fr(65536 * padded_be[FR_BYTES - 2] + 256 * padded_be[FR_BYTES - 1]
                           + padded_be[FR_BYTES])]
    ELSE [ok |-> TRUE, value |-> <<"fr_be", padded_be>>]

ParseErr(kind) == [ok |-> FALSE, value |-> FrZero, err |-> [kind |-> kind]]

Reverse(s) == [i \in 1..Len(s) |-> s[Len(s) + 1 - i]]

\* mutant: the padded buffer handed to Fr::from_bytes without the reversal
parse_fr_hex_not_reversed(hex) ==
    LET decoded == hex_decode(strip_prefix_0x(hex))
    IN IF ~decoded.ok THEN ParseErr("InvalidHex")
       ELSE IF Len(decoded.bytes) > FR_BYTES THEN ParseErr("HexTooLong")
       ELSE LET start == FR_BYTES - Len(decoded.bytes)
                padded_be == [i \in 1..FR_BYTES |->
                                 IF i <= start THEN 0 ELSE decoded.bytes[i - start]]
                fr == from_bytes_be(Reverse(padded_be))
            IN IF fr.ok THEN [ok |-> TRUE, value |-> fr.value, err |-> NoErr]
                        ELSE ParseErr("OutOfRange")

\* parse_fr_hex
parse_fr_hex(hex) ==
    LET decoded == hex_decode(strip_prefix_0x(hex))
    IN IF ~decoded.ok THEN ParseErr("InvalidHex")
       ELSE IF Len(decoded.bytes) > FR_BYTES THEN ParseErr("HexTooLong")
       ELSE LET start == FR_BYTES - Len(decoded.bytes)
                padded_be == [i \in 1..FR_BYTES |->
                                 IF i <= start THEN 0 ELSE decoded.bytes[i - start]]
                fr == from_bytes_be(padded_be)
            IN IF fr.ok THEN [ok |-> TRUE, value |-> fr.value, err |-> NoErr]
                        ELSE ParseErr("OutOfRange")

RECURSIVE DecimalValue(_, _)
DecimalValue(s, n) ==
    IF n = 0 THEN 0 ELSE 10 * DecimalValue(s, n - 1) + DecVal(s[n])

\* Fr::from_str_vartime: decimal digits, no leading zero unless the text is "0"
from_str_vartime(s) ==
    IF Len(s) = 0 \/ \E i \in 1..Len(s) : DecVal(s[i]) < 0
    THEN [ok |-> FALSE, value |-> FrZero]
    ELSE IF Len(s) > 1 /\ s[1] = "0"
    THEN [ok |-> FALSE, value |-> FrZero]
    ELSE [ok |-> TRUE, value |-> Fr(DecimalValue(s, Len(s)))]

\* the action_id argument of the WASM prove: hex when it starts with 0x or
\* 0X, decimal otherwise
parse_action_id(action_id) ==
    IF starts_with(action_id, "0", "x") \/ starts_with(action_id, "0", "X")
    THEN parse_fr_hex(action_id)
    ELSE LET r == from_str_vartime(action_id)
         IN IF r.ok THEN [ok |-> TRUE, value |-> r.value, err |-> NoErr]
                    ELSE ParseErr("InvalidActionId")

\* a JsValue of the merkle_path array: a string or something else
JsString(chars) == [js |-> "string", chars |-> chars]

JsOther == [js |-> "number", chars |-> <<>>]

parse_path_item(val) ==
    IF val.js # "string" THEN ParseErr("NotAString") ELSE parse_fr_hex(val.chars)

\* collect::<Result<Vec<Fr>, _>>: the first failing item's error, if any
parse_merkle_path(merkle_path) ==
    LET parsed == [i \in 1..Len(merkle_path) |-> parse_path_item(merkle_path[i])]
        bad == {i \in 1..Len(merkle_path) : ~parsed[i].ok}
    IN IF bad # {}
       THEN LET first == CHOOSE i \in bad : \A j \in bad : i <= j
            IN [ok |-> FALSE, path |-> <<>>, err |-> parsed[first].err, at |-> first]
       ELSE [ok |-> TRUE, path |-> [i \in 1..Len(merkle_path) |-> parsed[i].value],
             err |-> NoErr, at |-> 0]

(***************************************************************************)
(* Proving entry points.                                                   *)
(***************************************************************************)
MaxNonce == 2    \* OsRng draws of one proof: 1..MaxNonce

\* the circuit's three outputs as assigned cells of the builder
assigned_outputs(m) == [i \in 1..Len(m.outputs) |-> [cell |-> i, value |-> m.outputs[i]]]

\* CircuitExt::num_instance of DistrictCircuitForKeygen
num_instance == <<NUM_PUBLIC>>

\* instances() with the first two public outputs exchanged
instances_permuted(public_outputs) ==
    <<[i \in 1..Len(public_outputs) |->
          public_outputs[IF i = 1 THEN 2 ELSE IF i = 2 THEN 1 ELSE i].value]>>

\* CircuitExt::instances of DistrictCircuitForKeygen
instances(public_outputs) ==
    <<[i \in 1..Len(public_outputs) |-> public_outputs[i].value]>>

\* create_proof / gen_evm_proof_shplonk: the proof is the term of what it was
\* made from (transcript, parameters, key, builder shape, instance columns,
\* whether the witness satisfies the constraints, blinding randomness)
create_proof(transcript, p, instance_columns, satisfied, rnd) ==
    <<"proof", transcript, params_write(p.params), get_vk(p.pk),
      <<p.config_params, p.break_points>>, instance_columns, satisfied, rnd>>

\* snark_verifier::loader::evm::encode_calldata
encode_calldata(instance_columns, proof) ==
    <<"calldata", [i \in 1..Len(instance_columns[1]) |->
                       <<"be32", instance_columns[1][i]>>], proof>>

NoOutput == <<"none">>

NoCircuit == [kind |-> "none"]

ProveResult(ok, panic, err, circuit, submitted, out) ==
    [ok |-> ok, panic |-> panic, err |-> err, circuit |-> circuit,
     submitted |-> submitted, out |-> out]

\* native Prover::prove
prove(p, circuit, rnd) ==
    LET m == verify_membership(circuit)
    IN IF m.panic
       THEN ProveResult(FALSE, TRUE, NoErr, circuit, <<>>, NoOutput)
       ELSE LET assigned == assigned_outputs(m)
                public_instances == <<assigned[1].value, assigned[2].value,
                                      assigned[3].value>>
                submitted == <<public_instances>>
            IN ProveResult(TRUE, FALSE, NoErr, circuit, submitted,
                           create_proof("blake2b", p, submitted, m.satisfied, rnd))

\* native Prover::prove_evm; gen_evm_proof_shplonk may assert that the proof
\* it made verifies (lib_asserts)
prove_evm(p, circuit, rnd, lib_asserts) ==
    LET m == verify_membership(circuit)
    IN IF m.panic
       THEN ProveResult(FALSE, TRUE, NoErr, circuit, <<>>, NoOutput)
       ELSE LET assigned == assigned_outputs(m)
                public_outputs == <<assigned[1], assigned[2], assigned[3]>>
                submitted == instances(public_outputs)
            IN IF ~m.satisfied /\ lib_asserts
               THEN ProveResult(FALSE, TRUE, NoErr, circuit, submitted, NoOutput)
               ELSE ProveResult(TRUE, FALSE, NoErr, circuit, submitted,
                                create_proof("keccak", p, submitted, m.satisfied, rnd))

\* native Prover::prove_evm_calldata
prove_evm_calldata(p, circuit, rnd, lib_asserts) ==
    LET m == verify_membership(circuit)
    IN IF m.panic
       THEN ProveResult(FALSE, TRUE, NoErr, circuit, <<>>, NoOutput)
       ELSE LET assigned == assigned_outputs(m)
                public_outputs == <<assigned[1], assigned[2], assigned[3]>>
                submitted == instances(public_outputs)
                proof == create_proof("keccak", p, submitted, m.satisfied, rnd)
            IN IF ~m.satisfied /\ lib_asserts
               THEN ProveResult(FALSE, TRUE, NoErr, circuit, submitted, NoOutput)
               ELSE ProveResult(TRUE, FALSE, NoErr, circuit, submitted,
                                encode_calldata(submitted, proof))

\* WASM Prover::prove(identity_commitment, action_id, leaf_index, merkle_path)
wasm_prove(p, identity_commitment, action_id, leaf_index, merkle_path, rnd) ==
    LET identity == parse_fr_hex(identity_commitment)
    IN IF ~identity.ok
       THEN ProveResult(FALSE, FALSE, identity.err, NoCircuit, <<>>, NoOutput) ELSE
    LET action == parse_action_id(action_id)
    IN IF ~action.ok
       THEN ProveResult(FALSE, FALSE, action.err, NoCircuit, <<>>, NoOutput) ELSE
    LET path == parse_merkle_path(merkle_path)
    IN IF ~path.ok
       THEN ProveResult(FALSE, FALSE, [kind |-> path.err.kind, at |-> path.at],
                        NoCircuit, <<>>, NoOutput) ELSE
    IF Len(path.path) # TREE_DEPTH
    THEN ProveResult(FALSE, FALSE,
                     [kind |-> "InvalidMerklePathLength", got |-> Len(path.path),
                      expected |-> TREE_DEPTH], NoCircuit, <<>>, NoOutput) ELSE
    LET circuit == [identity_commitment |-> identity.value, action_id |-> action.value,
                    leaf_index |-> leaf_index, merkle_path |-> path.path]
        m == verify_membership(circuit)
        assigned == assigned_outputs(m)
        public_instances == <<assigned[1].value, assigned[2].value, assigned[3].value>>
        submitted == <<public_instances>>
    IN ProveResult(TRUE, FALSE, NoErr, circuit, submitted,
                   create_proof("blake2b", p, submitted, m.satisfied, rnd))

(***************************************************************************)
(* Verification entry points.  The halo2 verifier is taken as sound and    *)
(* complete: it accepts exactly the untampered proofs of a satisfied       *)
(* witness, read with the transcript they were written with, under the     *)
(* parameters and key they were made for, against the instance column      *)
(* they were made with.                                                    *)
(***************************************************************************)
HexDigits == <<"0", "1", "2", "3", "4", "5", "6", "7", "8", "9",
               "a", "b", "c", "d", "e", "f">>

\* hex::encode: two lower-case digits per byte
hex_encode(bytes) ==
    [i \in 1..(2 * Len(bytes)) |->
        IF i % 2 = 1 THEN HexDigits[(bytes[(i + 1) \div 2] \div 16) + 1]
                     ELSE HexDigits[(bytes[i \div 2] % 16) + 1]]

\* Fr::to_bytes reversed: the 32 big-endian bytes of an element, Fr(n) or the
\* term of its bytes
to_bytes_be(fr) ==
    IF fr[1] = "fr"
    THEN [i \in 1..FR_BYTES |->
             IF FR_BYTES - i >= 4 THEN 0
             ELSE (fr[2] \div (256 ^ (FR_BYTES - i))) % 256]
    ELSE fr[2]

\* fr_to_hex: "0x" and the 64 digits of the big-endian bytes
fr_to_hex(fr) == <<"0", "x">> \o hex_encode(to_bytes_be(fr))

\* the JS string holding fr_to_hex of an element; the digits of a Poseidon
\* output are not computed, its string is named by the element it encodes
JsHex(x) ==
    IF x[1] = "fr" THEN [js |-> "string", chars |-> fr_to_hex(x)]
    ELSE [js |-> "string", chars |-> <<>>, encodes |-> x]

\* val.as_string() followed by parse_fr_hex, on an element of public_inputs
parse_public_input(val) ==
    IF val.js # "string" THEN ParseErr("NotAString")
    ELSE IF "encodes" \in DOMAIN val
    THEN [ok |-> TRUE, value |-> val.encodes, err |-> NoErr]
    ELSE parse_fr_hex(val.chars)

\* proof[proof.len() / 2] ^= 0xFF
flip_byte(proof) == <<"tampered", proof, "len/2">>

\* plonk::verify_proof with Blake2bRead over the proof bytes
verify_proof(params, vk, proof, instance_columns) ==
    /\ proof[1] = "proof"
    /\ proof[2] = "blake2b"
    /\ proof[3] = params_write(params)
    /\ proof[4] = vk
    /\ vk[4] = params_write(params)
    /\ proof[6] = instance_columns
    /\ proof[7]

VerifyResult(ok, value, err, inputs, steps) ==
    [ok |-> ok, value |-> value, err |-> err, inputs |-> inputs, steps |-> steps]

WrongInputCount(n) == [kind |-> "WrongInputCount", expected |-> NUM_PUBLIC, got |-> n]

\* mutant: Ok(true) in both arms of the match on the verifier's result
verify_result_dropped(p, proof, public_inputs) ==
    IF Len(public_inputs) # NUM_PUBLIC
    THEN VerifyResult(FALSE, FALSE, WrongInputCount(Len(public_inputs)), <<>>,
                      <<"length_check">>)
    ELSE VerifyResult(TRUE, TRUE, NoErr, public_inputs,
                      <<"length_check", "verify_proof">>)

\* native Prover::verify(proof, public_inputs)
verify(p, proof, public_inputs) ==
    IF Len(public_inputs) # NUM_PUBLIC
    THEN VerifyResult(FALSE, FALSE, WrongInputCount(Len(public_inputs)), <<>>,
                      <<"length_check">>)
    ELSE IF verify_proof(p.params, p.vk, proof, <<public_inputs>>)
    THEN VerifyResult(TRUE, TRUE, NoErr, public_inputs,
                      <<"length_check", "verify_proof">>)
    ELSE VerifyResult(FALSE, FALSE, [kind |-> "ProofVerificationFailed"],
                      public_inputs, <<"length_check", "verify_proof">>)

\* the collect over public_inputs: the first failing item's error, if any
parse_public_inputs(public_inputs) ==
    LET parsed == [i \in 1..Len(public_inputs) |->
                      parse_public_input(public_inputs[i])]
        bad == {i \in 1..Len(public_inputs) : ~parsed[i].ok}
    IN IF bad # {}
       THEN LET first == CHOOSE i \in bad : \A j \in bad : i <= j
            IN [ok |-> FALSE, inputs |-> <<>>,
                err |-> [kind |-> parsed[first].err.kind, at |-> first]]
       ELSE [ok |-> TRUE, inputs |-> [i \in 1..Len(public_inputs) |-> parsed[i].value],
             err |-> NoErr]

\* mutant: the inputs parsed before their number is checked
wasm_verify_parse_first(p, proof, public_inputs) ==
    LET parsed == parse_public_inputs(public_inputs)
    IN IF ~parsed.ok
       THEN VerifyResult(FALSE, FALSE, parsed.err, <<>>, <<"parse_inputs">>)
       ELSE IF Len(public_inputs) # NUM_PUBLIC
       THEN VerifyResult(FALSE, FALSE, WrongInputCount(Len(public_inputs)), <<>>,
                         <<"parse_inputs", "length_check">>)
       ELSE IF verify_proof(p.params, p.vk, proof, <<parsed.inputs>>)
       THEN VerifyResult(TRUE, TRUE, NoErr, parsed.inputs,
                         <<"parse_inputs", "length_check", "verify_proof">>)
       ELSE VerifyResult(FALSE, FALSE, [kind |-> "ProofVerificationFailed"],
                         parsed.inputs,
                         <<"parse_inputs", "length_check", "verify_proof">>)

\* WASM Prover::verify(proof, public_inputs: Vec<JsValue>)
wasm_verify(p, proof, public_inputs) ==
    IF Len(public_inputs) # NUM_PUBLIC
    THEN VerifyResult(FALSE, FALSE, WrongInputCount(Len(public_inputs)), <<>>,
                      <<"length_check">>)
    ELSE LET parsed == parse_public_inputs(public_inputs)
         IN IF ~parsed.ok
            THEN VerifyResult(FALSE, FALSE, parsed.err, <<>>,
                              <<"length_check", "parse_inputs">>)
            ELSE IF verify_proof(p.params, p.vk, proof, <<parsed.inputs>>)
            THEN VerifyResult(TRUE, TRUE, NoErr, parsed.inputs,
                              <<"length_check", "parse_inputs", "verify_proof">>)
            ELSE VerifyResult(FALSE, FALSE, [kind |-> "ProofVerificationFailed"],
                              parsed.inputs,
                              <<"length_check", "parse_inputs", "verify_proof">>)

(***************************************************************************)
(* SpecProve: one call of a proving entry point on a constructed Prover,   *)
(* and one call of verify on what it returned.  Init holds the Prover      *)
(* (native: loaded from the artifacts of a keygen run; WASM: keygen in the *)
(* browser, or from_cache on the blobs of a keygen run with a parameter    *)
(* blob of its own) and the arguments of the proving call.                 *)
(***************************************************************************)
KeygenDisk ==
    [k |-> 14, ceremony |-> CanonicalSrs, test |-> NoTestFiles,
     pk |-> PkBytesOf(14, SINGLE_TIER_CELLS),
     break_points |-> BreakPointsJsonOf(14, SINGLE_TIER_CELLS)]

ReleaseBuild(target) ==
    [target |-> target, debug_assertions |-> FALSE, option_env_allow |-> FALSE,
     embedded |-> CanonicalSrs]

Repeat(c, n) == [i \in 1..n |-> c]

IdentityTexts ==
    {<<"0", "x", "0", "3", "e", "9">>,
     <<"0", "3", "E", "9">>,
     <<"0", "x", "3", "e", "9">>,
     <<"0", "X", "0", "3", "e", "9">>,
     Repeat("f", 2 * FR_BYTES),
     Repeat("0", 2 * FR_BYTES + 2)}

ActionTexts ==
    {<<"5", "5", "5">>,
     <<"0", "x", "0", "2", "2", "b">>,
     <<"0", "X", "0", "2", "2", "b">>,
     <<"0">>,
     <<"0", "0", "7">>,
     <<"5", "a", "5">>,
     <<>>}

ZeroText == JsString(<<"0", "x", "0", "0">>)

SiblingText == JsString(<<"0", "x", "0", "7", "d", "0">>)

PathTexts ==
    {[i \in 1..TREE_DEPTH |-> IF i = 1 THEN SiblingText ELSE ZeroText],
     [i \in 1..(TREE_DEPTH - 1) |-> ZeroText],
     [i \in 1..(TREE_DEPTH + 1) |-> ZeroText],
     [i \in 1..TREE_DEPTH |-> IF i = 3 THEN JsOther ELSE ZeroText],
     [i \in 1..TREE_DEPTH |-> IF i = 2 THEN JsString(<<"z", "z">>)
                              ELSE IF i = 5 THEN JsOther ELSE ZeroText]}

TextIndexes == {0, 2 ^ TREE_DEPTH - 1, 2 ^ TREE_DEPTH}

NativeRequests ==
    [op : {"request"}, fn : {"prove", "prove_evm", "prove_evm_calldata"},
     circuit : Circuits, rnd : 1..MaxNonce]

WasmRequests ==
    [op : {"request"}, fn : {"wasm_prove"}, identity_commitment : IdentityTexts,
     action_id : ActionTexts, leaf_index : TextIndexes, merkle_path : PathTexts,
     rnd : 1..MaxNonce]

InitProveNative ==
    /\ build = ReleaseBuild("native")
    /\ disk = KeygenDisk
    /\ cache = NoCache
    /\ prover = native_new(14, environ, disk, build.debug_assertions, FALSE).prover
    /\ call \in NativeRequests

InitProveWasm ==
    /\ build = ReleaseBuild("wasm")
    /\ disk = NoDisk
    /\ cache = NoCache
    /\ prover = wasm_new(14, build.embedded, build.option_env_allow).prover
    /\ call \in WasmRequests

\* the blobs export_cache wrote after a keygen run, with a parameter blob
KeygenCache(params_bytes) ==
    [some |-> TRUE, params_bytes |-> params_bytes,
     pk_bytes |-> PkBytesOf(14, SINGLE_TIER_CELLS),
     vk_bytes |-> VkBytesOf(14, SINGLE_TIER_CELLS),
     config_json |-> ConfigJsonOf(14, SINGLE_TIER_CELLS),
     breakpoints_json |-> BreakPointsJsonOf(14, SINGLE_TIER_CELLS)]

InitProveCache ==
    /\ build = ReleaseBuild("wasm")
    /\ disk = NoDisk
    /\ cache \in {KeygenCache(CanonicalSrs), KeygenCache(OtherSrs)}
    /\ prover = from_cache(14, cache, build.option_env_allow, FALSE).prover
    /\ call \in WasmRequests

InitProve ==
    /\ run = Idle
    /\ environ = [ALLOW_TEST_PARAMS |-> "unset"]
    /\ InitProveNative \/ InitProveWasm \/ InitProveCache

Requested(fn) == call.op = "request" /\ call.fn = fn /\ prover.some

ProveCall(fn, declared, r) ==
    [op |-> fn, ok |-> r.ok, panic |-> r.panic, err |-> r.err,
     circuit |-> r.circuit, declared |-> declared, submitted |-> r.submitted,
     out |-> r.out, request |-> call]

\* native prover.prove(circuit)
Prove ==
    /\ Requested("prove")
    /\ call' = ProveCall("prove", <<>>, prove(prover, call.circuit, call.rnd))
    /\ UNCHANGED <<run, build, environ, disk, cache, prover>>

\* native prover.prove_evm(circuit)
ProveEvm ==
    /\ Requested("prove_evm")
    /\ \E lib_asserts \in BOOLEAN :
          call' = ProveCall("prove_evm", num_instance,
                            prove_evm(prover, call.circuit, call.rnd, lib_asserts))
    /\ UNCHANGED <<run, build, environ, disk, cache, prover>>

\* native prover.prove_evm_calldata(circuit)
ProveEvmCalldata ==
    /\ Requested("prove_evm_calldata")
    /\ \E lib_asserts \in BOOLEAN :
          call' = ProveCall("prove_evm_calldata", num_instance,
                            prove_evm_calldata(prover, call.circuit, call.rnd,
                                               lib_asserts))
    /\ UNCHANGED <<run, build, environ, disk, cache, prover>>

\* WASM prover.prove(identity_commitment, action_id, leaf_index, merkle_path)
WasmProve ==
    /\ Requested("wasm_prove")
    /\ call' = ProveCall("wasm_prove", <<>>,
                         wasm_prove(prover, call.identity_commitment, call.action_id,
                                    call.leaf_index, call.merkle_path, call.rnd))
    /\ UNCHANGED <<run, build, environ, disk, cache, prover>>

Proved(fns) == call.op \in fns /\ call.ok /\ prover.some

\* what a caller may hand to verify next to a proof made for column col: the
\* column, the column reordered or changed in one place, a vector of
\* another length
InputVariants(col) ==
    {col, <<col[2], col[1], col[3]>>, [col EXCEPT ![3] = Fr(777)],
     [col EXCEPT ![2] = FrZero], SubSeq(col, 1, 2), <<>>, col \o <<FrZero>>}

JsInputs(inputs) == [i \in 1..Len(inputs) |-> JsHex(inputs[i])]

JsInputVariants(col) ==
    {JsInputs(v) : v \in InputVariants(col)}
    \cup {[JsInputs(col) EXCEPT ![2] = JsOther],
          [JsInputs(col) EXCEPT ![1] = JsString(<<"z", "z">>)],
          JsInputs(col) \o <<JsOther>>}

VerifyCall(fn, proof, public_inputs, r) ==
    [op |-> fn, ok |-> r.ok, value |-> r.value, err |-> r.err, steps |-> r.steps,
     inputs |-> r.inputs, proof |-> proof, public_inputs |-> public_inputs,
     origin |-> call]

\* native prover.verify(proof, public_inputs) on a proof a call returned
Verify ==
    /\ prover.surface = "native"
    /\ Proved({"prove", "prove_evm"})
    /\ \E proof \in {call.out, flip_byte(call.out)},
          public_inputs \in InputVariants(call.submitted[1]) :
          call' = VerifyCall("verify", proof, public_inputs,
                            verify(prover, proof, public_inputs))
    /\ UNCHANGED <<run, build, environ, disk, cache, prover>>

\* WASM prover.verify(proof, public_inputs) on a proof a call returned
WasmVerify ==
    /\ prover.surface = "wasm"
    /\ Proved({"wasm_prove"})
    /\ \E proof \in {call.out, flip_byte(call.out)},
          public_inputs \in JsInputVariants(call.submitted[1]) :
          call' = VerifyCall("wasm_verify", proof, public_inputs,
                            wasm_verify(prover, proof, public_inputs))
    /\ UNCHANGED <<run, build, environ, disk, cache, prover>>

\* WASM Prover::export_cache: the five blobs of the CacheExport
export_cache(p) ==
    [some |-> TRUE,
     params_bytes |-> params_write(p.params),
     vk_bytes |-> key_write(p.vk),
     pk_bytes |-> key_write(p.pk),
     config_json |-> to_json(p.config_params),
     breakpoints_json |-> to_json(p.break_points)]

\* prover.exportCache() followed by Prover.fromCache(k, ...) on what it
\* returned, in the same build; the caller keeps the first Prover (exporter)
Rehydrate ==
    /\ prover.surface = "wasm"
    /\ Proved({"wasm_prove"})
    /\ \E lib_accepts \in BOOLEAN :
          LET exported == export_cache(prover)
              r == from_cache(prover.k, exported, build.option_env_allow, lib_accepts)
          IN /\ cache' = exported
             /\ prover' = r.prover
             /\ call' = [op |-> "from_cache", surface |-> "wasm", k |-> prover.k,
                         ok |-> r.ok, err |-> r.err, steps |-> r.steps,
                         exporter |-> prover, origin |-> call]
    /\ UNCHANGED <<run, build, environ, disk>>

NextProve ==
    \/ Rehydrate
    \/ Prove
    \/ ProveEvm
    \/ ProveEvmCalldata
    \/ WasmProve
    \/ Verify
    \/ WasmVerify

SpecProve == InitProve /\ [][NextProve]_vars

(***************************************************************************)
(* Claims on the proving entry points (SpecProve).                         *)
(***************************************************************************)
ProvingOps == {"prove", "prove_evm", "prove_evm_calldata", "wasm_prove"}

VerifyOps == {"verify", "wasm_verify"}

Accepted == call.ok /\ call.value

\* the verify call was given a proof of a satisfied witness, byte-altered or not
OfValidProof ==
    /\ call.op \in VerifyOps
    /\ call.origin.op \in {"prove", "wasm_prove"}
    /\ ValidWitness(call.origin.circuit)

\* C11: verify never returns Ok(true) for a valid proof with one byte
\* altered, nor for a valid proof presented with a three-element instance
\* vector other than the one computed when the proof was made.
C11_VerifierRejects ==
    OfValidProof =>
        /\ call.proof = flip_byte(call.origin.out) => ~Accepted
        /\ (Len(call.public_inputs) = NUM_PUBLIC
              /\ call.inputs # call.origin.submitted[1]) => ~Accepted

C11_Witness ==
    /\ OfValidProof
    /\ call.op = "verify"
    /\ prover.params = <<"ParamsKZG", CanonicalSrs>>
    /\ call.proof = call.origin.out
    /\ call.public_inputs = [call.origin.submitted[1] EXCEPT ![3] = Fr(777)]
    /\ ~call.ok
    /\ call.err.kind = "ProofVerificationFailed"
    /\ call.steps = <<"length_check", "verify_proof">>

\* C12: for every witness set with leaf_index < 2^12 and a 12-element path,
\* every proof prove returns on a Prover is accepted by verify on that Prover
\* against the public outputs of those witnesses, and so is each other proof
\* of the same witnesses, whose bytes differ by the blinding randomness.
C12_ProofsVerify ==
    (OfValidProof /\ call.proof = call.origin.out
        /\ call.inputs = call.origin.submitted[1]) =>
        /\ Accepted
        /\ \A rnd \in 1..MaxNonce :
              LET again == prove(prover, call.origin.circuit, rnd)
              IN /\ rnd # call.origin.request.rnd => again.out # call.proof
                 /\ again.submitted = call.origin.submitted
                 /\ verify(prover, again.out, again.submitted[1]).value

WellFormedInputs ==
    /\ call.op \in VerifyOps
    /\ Len(call.public_inputs) = NUM_PUBLIC
    /\ call.op = "wasm_verify" => parse_public_inputs(call.public_inputs).ok

\* C14: verify with three well-formed public inputs returns true when the
\* proof is valid and the boolean false when it is not; an invalid proof is
\* not reported as an error.
C14_InvalidProofIsFalse ==
    WellFormedInputs =>
        /\ call.ok
        /\ call.value <=> verify_proof(prover.params, prover.vk, call.proof,
                                       <<call.inputs>>)

\* a proving call that was handed a Merkle path of the wrong length
WrongPathLength ==
    \/ /\ call.op = "prove"
       /\ Len(call.request.circuit.merkle_path) # TREE_DEPTH
    \/ /\ call.op = "wasm_prove"
       /\ parse_fr_hex(call.request.identity_commitment).ok
       /\ parse_action_id(call.request.action_id).ok
       /\ parse_merkle_path(call.request.merkle_path).ok
       /\ Len(call.request.merkle_path) # TREE_DEPTH

GivenPathLength ==
    IF call.op = "prove" THEN Len(call.request.circuit.merkle_path)
    ELSE Len(call.request.merkle_path)

\* C16: prove, native and WASM, given a Merkle path whose length is not 12,
\* returns an error that names the path length, without panicking and
\* without running a circuit.
C16_PathLengthErrorReturned ==
    WrongPathLength =>
        /\ ~call.panic
        /\ ~call.ok
        /\ call.err.kind = "InvalidMerklePathLength"
        /\ call.err.got = GivenPathLength
        /\ call.submitted = <<>>

(***************************************************************************)
(* SpecConcurrent: prove and verify calls in flight together on one        *)
(* Prover shared by reference.  call maps each caller to its call and its  *)
(* locals, run maps each builder slot to the builder held there.  A prove  *)
(* call takes the steps of Prover::prove in program order, a verify call   *)
(* those of Prover::verify; steps of different calls interleave freely.    *)
(***************************************************************************)
MaxThreads == 2

Threads == 1..MaxThreads

\* mutant: every call building in one builder shared by all
builder_slot_shared(t) == 0

\* let mut builder = RangeCircuitBuilder::prover(..): a local of the call
builder_slot(t) == t

ZeroPath == [j \in 1..TREE_DEPTH |-> FrZero]

ConcurrentCircuits ==
    {[identity_commitment |-> Fr(1001), leaf_index |-> 0,
      merkle_path |-> [ZeroPath EXCEPT ![1] = Fr(2000)], action_id |-> Fr(555)],
     [identity_commitment |-> FrZero, leaf_index |-> 1,
      merkle_path |-> ZeroPath, action_id |-> FrZero],
     [identity_commitment |-> Fr(1001), leaf_index |-> 2 ^ TREE_DEPTH,
      merkle_path |-> ZeroPath, action_id |-> Fr(555)]}

KeygenProver ==
    native_new(14, [ALLOW_TEST_PARAMS |-> "unset"], KeygenDisk, FALSE, FALSE).prover

\* a proof made earlier on this Prover, for the verify calls
StoredProof ==
    prove(KeygenProver,
          [identity_commitment |-> Fr(1001), leaf_index |-> 0,
           merkle_path |-> ZeroPath, action_id |-> Fr(555)], 1)

\* caller t's request; its OsRng draw is named by the caller
ThreadRequests(t) ==
    {[fn |-> "prove", circuit |-> c, rnd |-> t] : c \in ConcurrentCircuits}
    \cup {[fn |-> "verify", proof |-> pf, public_inputs |-> in] :
            pf \in {StoredProof.out, flip_byte(StoredProof.out)},
            in \in {StoredProof.submitted[1],
                    SubSeq(StoredProof.submitted[1], 1, 2)}}

NoBuilder == [live |-> FALSE, outputs |-> <<>>, satisfied |-> FALSE,
              emitted |-> <<>>, assigned_instances |-> <<>>]

InitConcurrent ==
    /\ build = ReleaseBuild("native")
    /\ environ = [ALLOW_TEST_PARAMS |-> "unset"]
    /\ disk = KeygenDisk
    /\ cache = NoCache
    /\ prover = KeygenProver
    /\ run = [s \in 0..MaxThreads |-> NoBuilder]
    /\ \E reqs \in [Threads -> UNION {ThreadRequests(t) : t \in Threads}] :
          /\ \A t \in Threads : reqs[t] \in ThreadRequests(t)
          /\ call = [t \in Threads |->
                        [req |-> reqs[t], pc |-> "start", overlap |-> FALSE,
                         public_instances |-> <<>>, result |-> <<>>]]

At(t, fn, pc) == call[t].req.fn = fn /\ call[t].pc = pc

\* some other prove call holds a builder while t takes a step
Overlaps(t) ==
    \E u \in Threads \ {t} :
        call[u].req.fn = "prove" /\ call[u].pc \in {"builder", "circuit", "instances"}

Shared == <<build, environ, disk, cache, prover>>

\* RangeCircuitBuilder::prover(self.config_params.clone(), self.break_points.clone())
NewBuilder ==
    \E t \in Threads :
        /\ At(t, "prove", "start")
        /\ run' = [run EXCEPT ![builder_slot(t)] = [NoBuilder EXCEPT !.live = TRUE]]
        /\ call' = [call EXCEPT ![t].pc = "builder"]
        /\ UNCHANGED Shared

\* circuit.verify_membership(ctx, gate) on the call's builder, with the
\* hasher that execution creates
RunCircuit ==
    \E t \in Threads :
        /\ At(t, "prove", "builder")
        /\ LET m == verify_membership(call[t].req.circuit)
           IN run' = [run EXCEPT ![builder_slot(t)] =
                        [live |-> TRUE, outputs |-> assigned_outputs(m),
                         satisfied |-> m.satisfied, emitted |-> m.emitted,
                         assigned_instances |-> <<>>]]
        /\ call' = [call EXCEPT ![t].pc = "circuit",
                                ![t].overlap = @ \/ Overlaps(t)]
        /\ UNCHANGED Shared

\* assigned_instances.clear(); push(the three outputs); public_instances read
\* from the output cells
PushInstances ==
    \E t \in Threads :
        /\ At(t, "prove", "circuit")
        /\ LET b == run[builder_slot(t)]
           IN /\ run' = [run EXCEPT ![builder_slot(t)].assigned_instances =
                                        <<b.outputs>>]
              /\ call' = [call EXCEPT
                            ![t].pc = "instances",
                            ![t].overlap = @ \/ Overlaps(t),
                            ![t].public_instances =
                                [i \in 1..Len(b.outputs) |-> b.outputs[i].value]]
        /\ UNCHANGED Shared

\* create_proof(&self.params, &self.pk, &[builder], &[&[&public_instances]],
\* OsRng, &mut transcript); Ok(transcript.finalize())
CreateProof ==
    \E t \in Threads :
        /\ At(t, "prove", "instances")
        /\ LET b == run[builder_slot(t)]
               submitted == <<call[t].public_instances>>
           IN call' = [call EXCEPT
                         ![t].pc = "done",
                         ![t].result =
                             ProveResult(TRUE, FALSE, NoErr, call[t].req.circuit,
                                         submitted,
                                         create_proof("blake2b", prover, submitted,
                                                      b.satisfied, call[t].req.rnd))]
        /\ run' = [run EXCEPT ![builder_slot(t)] = NoBuilder]
        /\ UNCHANGED Shared

\* the length test of Prover::verify
VerifyLength ==
    \E t \in Threads :
        /\ At(t, "verify", "start")
        /\ LET r == verify(prover, call[t].req.proof, call[t].req.public_inputs)
           IN call' = IF Len(call[t].req.public_inputs) # NUM_PUBLIC
                      THEN [call EXCEPT ![t].pc = "done", ![t].result = r,
                                        ![t].overlap = @ \/ Overlaps(t)]
                      ELSE [call EXCEPT ![t].pc = "checked",
                                        ![t].overlap = @ \/ Overlaps(t)]
        /\ UNCHANGED <<run, build, environ, disk, cache, prover>>

\* verify_proof on self.params and self.vk, and the match on its result
VerifyProof ==
    \E t \in Threads :
        /\ At(t, "verify", "checked")
        /\ call' = [call EXCEPT
                      ![t].pc = "done",
                      ![t].overlap = @ \/ Overlaps(t),
                      ![t].result = verify(prover, call[t].req.proof,
                                           call[t].req.public_inputs)]
        /\ UNCHANGED <<run, build, environ, disk, cache, prover>>

NextConcurrent ==
    \/ NewBuilder
    \/ RunCircuit
    \/ PushInstances
    \/ CreateProof
    \/ VerifyLength
    \/ VerifyProof

SpecConcurrent == InitConcurrent /\ [][NextConcurrent]_vars

\* the result of caller t's request run alone on the Prover
Alone(t) ==
    IF call[t].req.fn = "prove"
    THEN prove(prover, call[t].req.circuit, call[t].req.rnd)
    ELSE verify(prover, call[t].req.proof, call[t].req.public_inputs)

HoldsBuilder(t) ==
    call[t].req.fn = "prove" /\ call[t].pc \in {"builder", "circuit", "instances"}

\* C20: prove and verify calls interleaved on one shared Prover each work in
\* a builder of their own, with the one hasher their circuit execution
\* creates; none writes the Prover's parameters, keys, configuration or
\* break points, nor the environment, the files or the build; each finished
\* call returns what the same call returns when run alone.
C20_CallsIndependent ==
    /\ prover = KeygenProver
    /\ disk = KeygenDisk
    /\ environ = [ALLOW_TEST_PARAMS |-> "unset"]
    /\ cache = NoCache
    /\ build = ReleaseBuild("native")
    /\ \A t \in Threads, u \in Threads :
          (t # u /\ HoldsBuilder(t) /\ HoldsBuilder(u)) =>
              builder_slot(t) # builder_slot(u)
    /\ \A t \in Threads :
          (call[t].req.fn = "prove" /\ call[t].pc \in {"circuit", "instances"}) =>
              /\ run[builder_slot(t)].live
              /\ Count(run[builder_slot(t)].emitted, "initialize_consts") = 1
              /\ [i \in 1..NUM_PUBLIC |-> run[builder_slot(t)].outputs[i].value]
                    = verify_membership(call[t].req.circuit).outputs
    /\ \A t \in Threads : call[t].pc = "done" => call[t].result = Alone(t)

C20_Witness ==
    /\ \A t \in Threads : call[t].pc = "done" /\ call[t].overlap
    /\ call[1].req.fn = "prove"
    /\ call[2].req.fn = "prove"
    /\ call[1].req.circuit # call[2].req.circuit
    /\ call[1].result.ok /\ call[2].result.ok
    /\ call[1].result.submitted # call[2].result.submitted
    /\ \E t \in Threads : call[t].req.circuit.leaf_index = 2 ^ TREE_DEPTH

Rehydrated == call.op = "from_cache" /\ "exporter" \in DOMAIN call

\* the WASM proving call that preceded the export, run again on Prover p
ProveAgain(p, rnd) ==
    LET q == call.origin.request
    IN wasm_prove(p, q.identity_commitment, q.action_id, q.leaf_index,
                  q.merkle_path, rnd)

\* C21: from_cache on the artifacts export_cache(p) produced succeeds and
\* yields a Prover q with p's parameters, proving key, verifying key,
\* configuration params and break points; every proof p produces is accepted
\* by q and every proof q produces is accepted by p.
C21_CacheRoundTrip ==
    Rehydrated =>
        LET p == call.exporter
            q == prover
        IN /\ call.ok
           /\ q.params = p.params /\ q.pk = p.pk /\ q.vk = p.vk
           /\ q.config_params = p.config_params
           /\ q.break_points = p.break_points
           /\ ValidWitness(call.origin.circuit) =>
                 \A rnd \in 1..MaxNonce :
                     LET by_p == ProveAgain(p, rnd)
                         by_q == ProveAgain(q, rnd)
                     IN /\ wasm_verify(q, by_p.out, JsInputs(by_p.submitted[1])).value
                        /\ wasm_verify(p, by_q.out, JsInputs(by_q.submitted[1])).value

(***************************************************************************)
(* Claims on prover construction (Spec), continued.                        *)
(***************************************************************************)
WasmNewCall == call.op = "new" /\ call.surface = "wasm"

C23_RangeCheckedFirst ==
    (call.op = "new" /\ (call.k < MIN_K \/ call.k > MAX_K)) =>
        /\ ~call.ok
        /\ call.err = [kind |-> "InvalidK", k |-> call.k]
        /\ call.steps = <<"range_check">>
        /\ ~call.loaded.ok
        /\ call.loaded.steps = <<>>
        /\ call.prover = NoProver

C23_Witness ==
    /\ WasmNewCall
    /\ build.option_env_allow
    /\ call.k = MAX_K + 1
    /\ call.err.kind = "InvalidK"
    /\ call.steps = <<"range_check">>

(***************************************************************************)
(* SpecText: the hex and decimal readers of field elements, run on texts   *)
(* drawn from a bounded set, and fr_to_hex run on what parse_fr_hex read.  *)
(***************************************************************************)
MaxTextLen == 4      \* texts over TextChars of length 0..MaxTextLen

TextChars == {"0", "x", "X", "4", "2", "g"}

\* the modulus minus one, above it within 32 bytes, and a buffer that is
\* above the modulus read big-endian and below it read little-endian
BelowModulus == [MODULUS_BE EXCEPT ![FR_BYTES] = 0]

AllOnes == [i \in 1..FR_BYTES |-> 255]

OnesThenZero == [AllOnes EXCEPT ![FR_BYTES] = 0]

HexTexts ==
    {<<"0", "x", "0", "2", "2", "b">>,
     <<"0", "X", "0", "2", "2", "b">>,
     <<"0", "x", "2", "2", "b">>,
     <<"0", "2", "2", "b">>,
     <<"5", "5", "5">>,
     <<"0", "0", "7">>,
     <<"0", "x", "0", "x", "4", "2">>,
     <<"0", "x", "1", "2", "3", "4", "5", "6", "7", "8", "9", "0",
       "a", "b", "c", "d", "e", "f">>,
     hex_encode(MODULUS_BE),
     <<"0", "x">> \o hex_encode(MODULUS_BE),
     <<"0", "x">> \o hex_encode(BelowModulus),
     hex_encode(AllOnes),
     <<"0", "x">> \o hex_encode(OnesThenZero),
     <<"0", "x">> \o Repeat("0", 2 * FR_BYTES + 2),
     Repeat("f", 2 * FR_BYTES + 2)}

Texts == HexTexts \cup UNION {[1..n -> TextChars] : n \in 0..MaxTextLen}

\* str::trim_start_matches("0x"): every leading repetition of the pattern
RECURSIVE trim_start_matches_0x(_)
trim_start_matches_0x(s) ==
    IF starts_with(s, "0", "x") THEN trim_start_matches_0x(SubSeq(s, 3, Len(s)))
    ELSE s

UtilErr(kind) ==
    [ok |-> FALSE, value |-> FrZero, err |-> [kind |-> kind], panicked |-> FALSE]

\* utils::hex_to_field: the destination slice padded[start..] has
\* 32 - start bytes, and copy_from_slice panics on a source of another
\* length; Fr::from_repr reads its 32 bytes little-endian
hex_to_field(hex) ==
    LET decoded == hex_decode(trim_start_matches_0x(hex))
    IN IF ~decoded.ok THEN UtilErr("InvalidHex")
       ELSE IF Len(decoded.bytes) > FR_BYTES
       THEN [ok |-> FALSE, value |-> FrZero, err |-> [kind |-> "panic"],
             panicked |-> TRUE]
       ELSE LET start == FR_BYTES - Len(decoded.bytes)
                padded == [i \in 1..FR_BYTES |->
                              IF i <= start THEN 0 ELSE decoded.bytes[i - start]]
                fr == from_bytes_be(Reverse(padded))
            IN IF fr.ok
               THEN [ok |-> TRUE, value |-> fr.value, err |-> NoErr,
                     panicked |-> FALSE]
               ELSE UtilErr("OutOfRange")

TextCall(fn, text, r, panicked) ==
    [op |-> fn, text |-> text, ok |-> r.ok, value |-> r.value, err |-> r.err,
     panicked |-> panicked]

InitText ==
    /\ run = Idle
    /\ build = ReleaseBuild("wasm")
    /\ environ = [ALLOW_TEST_PARAMS |-> "unset"]
    /\ disk = NoDisk
    /\ cache = NoCache
    /\ prover = NoProver
    /\ call \in [op : {"text"}, text : Texts]

TextUnchanged == UNCHANGED <<run, build, environ, disk, cache, prover>>

ParseFrHex ==
    /\ call.op = "text"
    /\ call' = TextCall("parse_fr_hex", call.text, parse_fr_hex(call.text), FALSE)
    /\ TextUnchanged

HexToField ==
    /\ call.op = "text"
    /\ LET r == hex_to_field(call.text)
       IN call' = TextCall("hex_to_field", call.text, r, r.panicked)
    /\ TextUnchanged

ParseActionId ==
    /\ call.op = "text"
    /\ call' = TextCall("parse_action_id", call.text, parse_action_id(call.text),
                        FALSE)
    /\ TextUnchanged

\* fr_to_hex of an element parse_fr_hex returned, and that text read back
\* with and without its prefix
FrToHex ==
    /\ call.op = "parse_fr_hex"
    /\ call.ok
    /\ LET hex == fr_to_hex(call.value)
       IN call' = [op |-> "fr_to_hex", element |-> call.value, hex |-> hex,
                   back |-> parse_fr_hex(hex),
                   bare |-> parse_fr_hex(SubSeq(hex, 3, Len(hex))),
                   origin |-> call.text]
    /\ TextUnchanged

NextText == ParseFrHex \/ HexToField \/ ParseActionId \/ FrToHex

SpecText == InitText /\ [][NextText]_vars

(***************************************************************************)
(* Claims on the text readers (SpecText).                                  *)
(***************************************************************************)
\* the bytes a text stands for, read as hex with an optional 0x prefix
Decoded(text) == hex_decode(strip_prefix_0x(text))

Parsed(value) == [ok |-> TRUE, value |-> value, err |-> NoErr]

TooLongOrOutOfRange(text) ==
    /\ Decoded(text).ok
    /\ \/ Len(Decoded(text).bytes) > FR_BYTES
       \/ /\ Len(Decoded(text).bytes) = FR_BYTES
          /\ ~BeLess(Decoded(text).bytes, MODULUS_BE)

\* C25: every hex-to-field parser (parse_fr_hex, hex_to_field) answers a hex
\* input of more than 32 bytes, or of 32 bytes not below the modulus, with an
\* error returned to the caller: no value, no panic.
C25_OversizeIsAnError ==
    (call.op \in {"parse_fr_hex", "hex_to_field"} /\ TooLongOrOutOfRange(call.text)) =>
        /\ ~call.ok
        /\ ~call.panicked
        /\ call.err.kind \in {"HexTooLong", "OutOfRange"}

ClassifiedHex(text) == starts_with(text, "0", "x") \/ starts_with(text, "0", "X")

\* the element of at most 64 hex digits read as one big-endian number
DigitsValue(digits) ==
    LET padded == Repeat("0", 2 * FR_BYTES - Len(digits)) \o digits
    IN from_bytes_be(hex_decode(padded).bytes)

ValidDigits(digits) ==
    /\ Len(digits) <= 2 * FR_BYTES
    /\ \A i \in 1..Len(digits) : HexVal(digits[i]) >= 0
    /\ DigitsValue(digits).ok

\* C30: the WASM prove reads an action_id that begins with 0x or 0X and
\* carries at most 64 valid hex digits of an in-range value as that
\* big-endian value, reads every other string as decimal, and gives the same
\* element for the same number in either form.
C30_ActionIdBothForms ==
    /\ parse_action_id(<<"5", "5", "5">>) =
           parse_action_id(<<"0", "x", "0", "2", "2", "b">>)
    /\ call.op = "parse_action_id" =>
          LET digits == SubSeq(call.text, 3, Len(call.text))
          IN IF ClassifiedHex(call.text)
             THEN ValidDigits(digits) =>
                      (call.ok /\ call.value = DigitsValue(digits).value)
             ELSE /\ call.ok = from_str_vartime(call.text).ok
                  /\ call.ok => call.value = from_str_vartime(call.text).value

(***************************************************************************)
(* SpecVault: the CipherVault contract (contracts/near/ciphervault).  The  *)
(* contract's state is held in `run`, with two history fields (what was    *)
(* deposited to each account, which IDs were returned); `call` is the last *)
(* call with its arguments, its outcome and the state it started from.     *)
(* Amounts are in units of 10^18 yoctoNEAR, so that a byte costs 10 and a  *)
(* deposit need not be a multiple of the byte cost.  A byte vector is the  *)
(* term of its length and fill; created_at (the block time) is read by no  *)
(* handler and is left out.  A panicking call ends with the state as its   *)
(* statements left it.                                                     *)
(***************************************************************************)
MaxStores == 2       \* store_envelope is called while envelope_counter < MaxStores
MaxVersion == 2      \* update_envelope is called on versions below MaxVersion
MaxDeposits == 2     \* storage_deposit succeeds at most MaxDeposits times

MAX_ENVELOPE_SIZE == 100000
STORAGE_COST_PER_BYTE == 10   \* 10^19 yoctoNEAR, in units of 10^18
STORAGE_OVERHEAD == 200       \* "+ 200" of calculate_storage_cost
NONCE_LEN == 24
COMMIT_LEN == 64
IV_LEN == 12
TAG_LEN == 16

Bytes(len, fill) == <<"bytes", len, fill>>

len(bytes) == bytes[2]

\* account names; the second one ends like an envelope ID of the first
Accounts == {<<"a">>, <<"a", "-", "1">>}

None == <<>>

RECURSIVE to_string(_)
to_string(n) ==
    IF n < 10 THEN <<HexDigits[n + 1]>>
    ELSE to_string(n \div 10) \o <<HexDigits[(n % 10) + 1]>>

\* format!("{}-{}", account, self.envelope_counter)
format_envelope_id(account, envelope_counter) ==
    account \o <<"-">> \o to_string(envelope_counter)

EnvelopeArgs(data, nonce, commit, key, iv, tag) ==
    [encrypted_data |-> Bytes(data, 1), nonce |-> Bytes(nonce, 0),
     poseidon_commit |-> Bytes(commit, "a"),
     encrypted_sovereign_key |-> Bytes(key, 5),
     sovereign_key_iv |-> Bytes(iv, 0), sovereign_key_tag |-> Bytes(tag, 0)]

SmallArgs == EnvelopeArgs(1, NONCE_LEN, COMMIT_LEN, 0, IV_LEN, TAG_LEN)

LargeArgs == EnvelopeArgs(5, NONCE_LEN, COMMIT_LEN, 4, IV_LEN, TAG_LEN)

ValidArgs ==
    {SmallArgs, LargeArgs,
     EnvelopeArgs(MAX_ENVELOPE_SIZE, NONCE_LEN, COMMIT_LEN, 0, IV_LEN, TAG_LEN)}

InvalidArgs ==
    {EnvelopeArgs(0, NONCE_LEN, COMMIT_LEN, 0, IV_LEN, TAG_LEN),
     EnvelopeArgs(1, NONCE_LEN - 1, COMMIT_LEN, 0, IV_LEN, TAG_LEN),
     EnvelopeArgs(1, NONCE_LEN, COMMIT_LEN - 1, 0, IV_LEN, TAG_LEN),
     EnvelopeArgs(1, NONCE_LEN, COMMIT_LEN, 0, IV_LEN - 1, TAG_LEN),
     EnvelopeArgs(1, NONCE_LEN, COMMIT_LEN, 0, IV_LEN, TAG_LEN + 1),
     EnvelopeArgs(MAX_ENVELOPE_SIZE + 1, NONCE_LEN, COMMIT_LEN, 0, IV_LEN, TAG_LEN)}

\* calculate_storage_cost
calculate_storage_cost(envelope) ==
    LET total_size == len(envelope.encrypted_data) + len(envelope.nonce)
                        + len(envelope.poseidon_commit)
                        + len(envelope.encrypted_sovereign_key)
                        + len(envelope.sovereign_key_iv)
                        + len(envelope.sovereign_key_tag) + STORAGE_OVERHEAD
    IN total_size * STORAGE_COST_PER_BYTE

\* attached deposits: nothing, the cost of the small envelope, and the cost
\* of the large one with some change
Deposits ==
    {0, calculate_storage_cost(SmallArgs),
     calculate_storage_cost(LargeArgs) + STORAGE_COST_PER_BYTE \div 2}

\* CipherVault::new
NewVault ==
    [envelopes |-> <<>>, envelope_counter |-> 0, storage_balances |-> <<>>,
     deposited |-> [a \in Accounts |-> 0], returned |-> {}, deposits |-> 0]

\* map.get(&key)
Has(map, key) == key \in DOMAIN map

\* map.insert(&key, &value)
Insert(map, key, value) ==
    [k \in DOMAIN map \cup {key} |-> IF k = key THEN value ELSE map[k]]

\* map.remove(&key)
Remove(map, key) == [k \in DOMAIN map \ {key} |-> map[k]]

\* self.storage_balances.get(&account).unwrap_or(0)
balance_or_zero(storage_balances, account) ==
    IF Has(storage_balances, account) THEN storage_balances[account] ELSE 0

VaultOk(state, value) == [ok |-> TRUE, err |-> "none", state |-> state, value |-> value]

VaultPanic(state, err) == [ok |-> FALSE, err |-> err, state |-> state, value |-> None]

\* storage_deposit
storage_deposit(self, predecessor, attached_deposit, account_id) ==
    LET amount == attached_deposit
        account == IF account_id = None THEN predecessor ELSE account_id
    IN IF ~(amount > 0)
       THEN VaultPanic(self, "Deposit amount must be greater than 0")
       ELSE LET current_balance == balance_or_zero(self.storage_balances, account)
                new_balance == current_balance + amount
            IN VaultOk([self EXCEPT
                           !.storage_balances = Insert(@, account, new_balance),
                           !.deposited[account] = @ + amount,
                           !.deposits = @ + 1],
                       new_balance)

\* the assertions on the arguments, in the order of the code: the message of
\* the first that fails
validate_inputs(args) ==
    IF len(args.encrypted_data) = 0 THEN "Encrypted data cannot be empty"
    ELSE IF len(args.nonce) # NONCE_LEN THEN "Nonce must be 24 bytes"
    ELSE IF len(args.poseidon_commit) # COMMIT_LEN
    THEN "Poseidon commitment must be 64 hex chars"
    ELSE IF len(args.sovereign_key_iv) # IV_LEN THEN "AES-GCM IV must be 12 bytes"
    ELSE IF len(args.sovereign_key_tag) # TAG_LEN
    THEN "AES-GCM auth tag must be 16 bytes"
    ELSE IF len(args.encrypted_data) > MAX_ENVELOPE_SIZE
    THEN "Encrypted data exceeds maximum size (100KB)"
    ELSE "none"

CipherEnvelope(owner, args, version, guardians) ==
    [owner |-> owner, encrypted_data |-> args.encrypted_data, nonce |-> args.nonce,
     poseidon_commit |-> args.poseidon_commit,
     encrypted_sovereign_key |-> args.encrypted_sovereign_key,
     sovereign_key_iv |-> args.sovereign_key_iv,
     sovereign_key_tag |-> args.sovereign_key_tag,
     version |-> version, guardians |-> guardians]

\* mutant: the cost deducted without the test of the balance
store_envelope_unchecked(self, predecessor, args) ==
    LET account == predecessor
        invalid == validate_inputs(args)
    IN IF invalid # "none" THEN VaultPanic(self, invalid) ELSE
    LET envelope == CipherEnvelope(account, args, 1, <<>>)
        storage_cost == calculate_storage_cost(envelope)
        current_balance == balance_or_zero(self.storage_balances, account)
    IN
    LET new_balance == current_balance - storage_cost
        envelope_counter == self.envelope_counter + 1
        envelope_id == format_envelope_id(account, envelope_counter)
    IN VaultOk([self EXCEPT
                   !.storage_balances = Insert(@, account, new_balance),
                   !.envelope_counter = envelope_counter,
                   !.envelopes = Insert(@, envelope_id, envelope),
                   !.returned = @ \cup {envelope_id}],
               envelope_id)

\* mutant: the ID formatted from the number of stored envelopes
store_envelope_by_count(self, predecessor, args) ==
    LET account == predecessor
        invalid == validate_inputs(args)
    IN IF invalid # "none" THEN VaultPanic(self, invalid) ELSE
    LET envelope == CipherEnvelope(account, args, 1, <<>>)
        storage_cost == calculate_storage_cost(envelope)
        current_balance == balance_or_zero(self.storage_balances, account)
    IN IF ~(current_balance >= storage_cost)
       THEN VaultPanic(self, "Insufficient storage deposit") ELSE
    LET new_balance == current_balance - storage_cost
        envelope_counter == Cardinality(DOMAIN self.envelopes) + 1
        envelope_id == format_envelope_id(account, envelope_counter)
    IN VaultOk([self EXCEPT
                   !.storage_balances = Insert(@, account, new_balance),
                   !.envelope_counter = envelope_counter,
                   !.envelopes = Insert(@, envelope_id, envelope),
                   !.returned = @ \cup {envelope_id}],
               envelope_id)

\* store_envelope (guardians: None)
store_envelope(self, predecessor, args) ==
    LET account == predecessor
        invalid == validate_inputs(args)
    IN IF invalid # "none" THEN VaultPanic(self, invalid) ELSE
    LET envelope == CipherEnvelope(account, args, 1, <<>>)
        storage_cost == calculate_storage_cost(envelope)
        current_balance == balance_or_zero(self.storage_balances, account)
    IN IF ~(current_balance >= storage_cost)
       THEN VaultPanic(self, "Insufficient storage deposit") ELSE
    LET new_balance == current_balance - storage_cost
        envelope_counter == self.envelope_counter + 1
        envelope_id == format_envelope_id(account, envelope_counter)
    IN VaultOk([self EXCEPT
                   !.storage_balances = Insert(@, account, new_balance),
                   !.envelope_counter = envelope_counter,
                   !.envelopes = Insert(@, envelope_id, envelope),
                   !.returned = @ \cup {envelope_id}],
               envelope_id)

\* mutant: update_envelope without the ownership assertion
update_envelope_by_anyone(self, predecessor, envelope_id, args) ==
    IF ~Has(self.envelopes, envelope_id) THEN VaultPanic(self, "Envelope not found")
    ELSE
    LET existing == self.envelopes[envelope_id]
    IN
    LET invalid == validate_inputs(args)
    IN IF invalid # "none" THEN VaultPanic(self, invalid) ELSE
    LET new_envelope == CipherEnvelope(existing.owner, args, existing.version + 1,
                                       existing.guardians)
        old_cost == calculate_storage_cost(existing)
        new_cost == calculate_storage_cost(new_envelope)
        current_balance == balance_or_zero(self.storage_balances, existing.owner)
    IN IF new_cost > old_cost /\ ~(current_balance >= new_cost - old_cost)
       THEN VaultPanic(self, "Insufficient storage deposit for update")
       ELSE LET storage_balances ==
                    IF new_cost > old_cost
                    THEN Insert(self.storage_balances, existing.owner,
                                current_balance - (new_cost - old_cost))
                    ELSE IF new_cost < old_cost
                    THEN Insert(self.storage_balances, existing.owner,
                                current_balance + (old_cost - new_cost))
                    ELSE self.storage_balances
            IN VaultOk([self EXCEPT
                           !.storage_balances = storage_balances,
                           !.envelopes = Insert(@, envelope_id, new_envelope)],
                       envelope_id)

\* update_envelope
update_envelope(self, predecessor, envelope_id, args) ==
    IF ~Has(self.envelopes, envelope_id) THEN VaultPanic(self, "Envelope not found")
    ELSE
    LET existing == self.envelopes[envelope_id]
    IN IF predecessor # existing.owner
       THEN VaultPanic(self, "Only owner can update envelope") ELSE
    LET invalid == validate_inputs(args)
    IN IF invalid # "none" THEN VaultPanic(self, invalid) ELSE
    LET new_envelope == CipherEnvelope(existing.owner, args, existing.version + 1,
                                       existing.guardians)
        old_cost == calculate_storage_cost(existing)
        new_cost == calculate_storage_cost(new_envelope)
        current_balance == balance_or_zero(self.storage_balances, existing.owner)
    IN IF new_cost > old_cost /\ ~(current_balance >= new_cost - old_cost)
       THEN VaultPanic(self, "Insufficient storage deposit for update")
       ELSE LET storage_balances ==
                    IF new_cost > old_cost
                    THEN Insert(self.storage_balances, existing.owner,
                                current_balance - (new_cost - old_cost))
                    ELSE IF new_cost < old_cost
                    THEN Insert(self.storage_balances, existing.owner,
                                current_balance + (old_cost - new_cost))
                    ELSE self.storage_balances
            IN VaultOk([self EXCEPT
                           !.storage_balances = storage_balances,
                           !.envelopes = Insert(@, envelope_id, new_envelope)],
                       envelope_id)

\* mutant: delete_envelope without the refund
delete_envelope_no_refund(self, predecessor, envelope_id) ==
    IF ~Has(self.envelopes, envelope_id) THEN VaultPanic(self, "Envelope not found")
    ELSE
    LET envelope == self.envelopes[envelope_id]
    IN IF predecessor # envelope.owner
       THEN VaultPanic(self, "Only owner can delete envelope")
       ELSE VaultOk([self EXCEPT !.envelopes = Remove(@, envelope_id)], None)

\* delete_envelope
delete_envelope(self, predecessor, envelope_id) ==
    IF ~Has(self.envelopes, envelope_id) THEN VaultPanic(self, "Envelope not found")
    ELSE
    LET envelope == self.envelopes[envelope_id]
    IN IF predecessor # envelope.owner
       THEN VaultPanic(self, "Only owner can delete envelope")
       ELSE LET refund == calculate_storage_cost(envelope)
                current_balance == balance_or_zero(self.storage_balances,
                                                   envelope.owner)
                new_balance == current_balance + refund
            IN VaultOk([self EXCEPT
                           !.storage_balances = Insert(@, envelope.owner, new_balance),
                           !.envelopes = Remove(@, envelope_id)],
                       None)

\* the IDs a caller may name: those returned so far, stored still or deleted,
\* and one that was never returned
EnvelopeIds(self) ==
    self.returned \cup {format_envelope_id(<<"a">>, 0)}

InitVault ==
    /\ run = NewVault
    /\ build = ReleaseBuild("wasm")
    /\ environ = [ALLOW_TEST_PARAMS |-> "unset"]
    /\ disk = NoDisk
    /\ cache = NoCache
    /\ prover = NoProver
    /\ call = Idle

VaultCall(fn, predecessor, envelope_id, args, r) ==
    [op |-> fn, predecessor |-> predecessor, envelope_id |-> envelope_id,
     args |-> args, ok |-> r.ok, err |-> r.err, value |-> r.value, before |-> run]

VaultUnchanged == UNCHANGED <<build, environ, disk, cache, prover>>

\* A panicked call left the contract as it found it, so the calls that can
\* follow it, and the states they lead to, are those of the state it was
\* made in: calls are expanded from the states a completed call produced.
Completed == IF call.op = "none" THEN TRUE ELSE call.ok

StorageDeposit ==
    /\ Completed
    /\ run.deposits < MaxDeposits
    /\ \E predecessor \in Accounts, attached_deposit \in Deposits :
       \E account_id \in (Accounts \ {predecessor}) \cup {None} :
          LET r == storage_deposit(run, predecessor, attached_deposit, account_id)
          IN /\ run' = r.state
             /\ call' = VaultCall("storage_deposit", predecessor, account_id,
                                  attached_deposit, r)
    /\ VaultUnchanged

StoreEnvelope ==
    /\ Completed
    /\ run.envelope_counter < MaxStores
    /\ \E predecessor \in Accounts, args \in ValidArgs \cup InvalidArgs :
          LET r == store_envelope(run, predecessor, args)
          IN /\ run' = r.state
             /\ call' = VaultCall("store_envelope", predecessor, None, args, r)
    /\ VaultUnchanged

UpdateEnvelope ==
    /\ Completed
    /\ \E predecessor \in Accounts, envelope_id \in EnvelopeIds(run),
          args \in ValidArgs \cup InvalidArgs :
          /\ Has(run.envelopes, envelope_id) =>
                 run.envelopes[envelope_id].version < MaxVersion
          /\ LET r == update_envelope(run, predecessor, envelope_id, args)
             IN /\ run' = r.state
                /\ call' = VaultCall("update_envelope", predecessor, envelope_id,
                                     args, r)
    /\ VaultUnchanged

DeleteEnvelope ==
    /\ Completed
    /\ \E predecessor \in Accounts, envelope_id \in EnvelopeIds(run) :
          LET r == delete_envelope(run, predecessor, envelope_id)
          IN /\ run' = r.state
             /\ call' = VaultCall("delete_envelope", predecessor, envelope_id,
                                  None, r)
    /\ VaultUnchanged

NextVault == StorageDeposit \/ StoreEnvelope \/ UpdateEnvelope \/ DeleteEnvelope

SpecVault == InitVault /\ [][NextVault]_vars


(***************************************************************************)
(* Claims on the CipherVault contract (SpecVault).                         *)
(***************************************************************************)
RECURSIVE SumOfCosts(_, _)
SumOfCosts(envelopes, ids) ==
    IF ids = {} THEN 0
    ELSE LET id == CHOOSE i \in ids : TRUE
         IN calculate_storage_cost(envelopes[id]) + SumOfCosts(envelopes, ids \ {id})

Owned(self, account) ==
    {id \in DOMAIN self.envelopes : self.envelopes[id].owner = account}

CostOfOwned(self, account) == SumOfCosts(self.envelopes, Owned(self, account))

VaultOps == {"storage_deposit", "store_envelope", "update_envelope", "delete_envelope"}

Stored(id) == Has(call.before.envelopes, id)

\* C26: for every account, the storage balance plus the cost of the
\* envelopes it owns equals what was deposited to it; so an account whose
\* envelope was stored, updated and deleted has its balance back.
C26_BalancePlusCostsIsDeposited ==
    call.op \in VaultOps =>
        /\ \A a \in Accounts :
              balance_or_zero(run.storage_balances, a) + CostOfOwned(run, a)
                  = run.deposited[a]
        /\ (call.op = "delete_envelope" /\ call.ok) =>
              balance_or_zero(run.storage_balances, call.predecessor)
                  = balance_or_zero(call.before.storage_balances, call.predecessor)
                      + calculate_storage_cost(call.before.envelopes[call.envelope_id])

C26_Witness ==
    /\ call.op = "delete_envelope"
    /\ call.ok
    /\ call.before.envelopes[call.envelope_id].version = MaxVersion
    /\ call.before.envelopes[call.envelope_id].encrypted_data = LargeArgs.encrypted_data
    /\ Owned(run, call.predecessor) = {}
    /\ run.storage_balances[call.predecessor] = run.deposited[call.predecessor]
    /\ run.deposited[call.predecessor] > 0

\* C27: update_envelope and delete_envelope called by an account other than
\* the envelope's owner fail and change nothing, and a stored envelope keeps
\* its owner, the account that stored it, until it is deleted.
C27_OwnerOnly ==
    call.op \in VaultOps =>
        /\ (call.op \in {"update_envelope", "delete_envelope"}
              /\ Stored(call.envelope_id)
              /\ call.predecessor # call.before.envelopes[call.envelope_id].owner) =>
              /\ ~call.ok
              /\ call.err \in {"Only owner can update envelope",
                               "Only owner can delete envelope"}
              /\ run = call.before
        /\ \A id \in DOMAIN run.envelopes :
              /\ Stored(id) => run.envelopes[id].owner = call.before.envelopes[id].owner
              /\ \E n \in 1..run.envelope_counter :
                    id = format_envelope_id(run.envelopes[id].owner, n)

C27_Witness ==
    /\ call.op = "update_envelope"
    /\ Stored(call.envelope_id)
    /\ call.predecessor # call.before.envelopes[call.envelope_id].owner
    /\ call.args \in ValidArgs
    /\ balance_or_zero(run.storage_balances, call.predecessor) > 0
    /\ ~call.ok
    /\ run = call.before

\* what store_envelope, or update_envelope by the owner, has to take from
\* the caller's balance
Required ==
    IF call.op = "store_envelope" THEN calculate_storage_cost(call.args)
    ELSE calculate_storage_cost(call.args)
           - calculate_storage_cost(call.before.envelopes[call.envelope_id])

Charged ==
    /\ call.op \in {"store_envelope", "update_envelope"}
    /\ call.args \in ValidArgs
    /\ \/ call.op = "store_envelope"
       \/ /\ call.op = "update_envelope"
          /\ Stored(call.envelope_id)
          /\ call.predecessor = call.before.envelopes[call.envelope_id].owner

\* C28: no storage balance is ever below zero; store_envelope and
\* update_envelope fail with the insufficient-deposit error when the cost
\* exceeds the caller's balance; and a failed store or update leaves
\* balances, envelopes and the counter as they were.
C28_NoOverdraft ==
    call.op \in VaultOps =>
        /\ \A a \in DOMAIN run.storage_balances : run.storage_balances[a] >= 0
        /\ (Charged /\ Required >
                balance_or_zero(call.before.storage_balances, call.predecessor)) =>
              /\ ~call.ok
              /\ call.err \in {"Insufficient storage deposit",
                               "Insufficient storage deposit for update"}
        /\ (call.op \in {"store_envelope", "update_envelope"} /\ ~call.ok) =>
              /\ run.storage_balances = call.before.storage_balances
              /\ run.envelopes = call.before.envelopes
              /\ run.envelope_counter = call.before.envelope_counter

C28_Witness ==
    /\ call.op = "store_envelope"
    /\ call.args = LargeArgs
    /\ balance_or_zero(call.before.storage_balances, call.predecessor) =
           calculate_storage_cost(SmallArgs)
    /\ ~call.ok
    /\ call.err = "Insufficient storage deposit"
    /\ run.storage_balances = call.before.storage_balances

\* C29: a successful store_envelope returns an ID never returned before,
\* adds one envelope and alters no other, and raises the counter by one; no
\* other call changes the counter; a successful update_envelope returns the
\* ID it was given and raises that envelope's version by one.
C29_FreshIds ==
    call.op \in VaultOps =>
        /\ (call.op = "store_envelope" /\ call.ok) =>
              /\ call.value \notin call.before.returned
              /\ ~Stored(call.value)
              /\ DOMAIN run.envelopes = DOMAIN call.before.envelopes \cup {call.value}
              /\ \A id \in DOMAIN call.before.envelopes :
                    run.envelopes[id] = call.before.envelopes[id]
              /\ run.envelopes[call.value].version = 1
              /\ run.envelope_counter = call.before.envelope_counter + 1
        /\ ~(call.op = "store_envelope" /\ call.ok) =>
              run.envelope_counter = call.before.envelope_counter
        /\ (call.op = "update_envelope" /\ call.ok) =>
              /\ call.value = call.envelope_id
              /\ DOMAIN run.envelopes = DOMAIN call.before.envelopes
              /\ run.envelopes[call.envelope_id].version =
                     call.before.envelopes[call.envelope_id].version + 1

C29_Witness ==
    /\ call.op = "store_envelope"
    /\ call.ok
    /\ call.before.returned # {}
    /\ DOMAIN call.before.envelopes = {}
    /\ call.value \notin call.before.returned
    /\ run.envelope_counter = MaxStores

====
